---------------------------- MODULE Spec2Model ----------------------------
(***************************************************************************)
(* A model of the VOPRF (draft-irtf-cfrg-voprf-08) implementation:         *)
(* blind / evaluate / finalize in Base and Verifiable mode, the batched    *)
(* DLEQ proof (compute_composites, generate_proof, verify_proof) and the   *)
(* length validation of inputs, metadata and batches, the constructors of  *)
(* the servers and the wire forms of states, messages and proofs, over the *)
(* two groups of the library (Ristretto255 and P-256).                     *)
(*                                                                         *)
(* The prime-order group is modelled by its exponents: the element g*e is  *)
(* the number e in 0..Q-1, the identity is 0, the generator is 1, adding   *)
(* elements adds exponents and multiplying an element by a scalar          *)
(* multiplies them, all modulo the group order Q.  Byte strings supplied   *)
(* by the caller (input, metadata) are a length and a content tag; the     *)
(* strings the library builds (DSTs, I2OSP prefixes, serialized elements)  *)
(* are byte sequences.  The hash functions are deterministic mixing        *)
(* functions of the byte transcript, reduced modulo the group order as the *)
(* code reduces the expanded bytes.                                        *)
(***************************************************************************)
EXTENDS Integers, Sequences, FiniteSets, Bags, TLC

(***************************************************************************)
(* Bounds of the model.                                                    *)
(***************************************************************************)
MaxTag == 2
MaxScalar == 2
MaxBatch == 2

(***************************************************************************)
(* The cipher suite.  It is a type parameter of every operation of the     *)
(* library: a run is made with one suite throughout, and the operations of *)
(* the group adapter are those of the run's group.                         *)
(***************************************************************************)
VARIABLE group   \* Ristretto255 or P256: CS::Group
Groups == {"Ristretto255", "P256"}

(***************************************************************************)
(* Program constants.                                                      *)
(***************************************************************************)
\* The group order (p256.rs names n; Ristretto255's is fixed by the Scalar
\* type), scaled down to the prime 2^26 - 5 so that products fit.
Q == 67108859
\* Encoded sizes, scaled to the model's order: a scalar takes ScalarLen
\* bytes in both groups (U32), an element one byte more in P-256 (U33) than
\* in Ristretto255 (U32).
ScalarLen == 4
Ristretto_ElemLen == 4
P256_ElemLen == 5
ElemLen == IF group = "P256" THEN P256_ElemLen ELSE Ristretto_ElemLen
\* u16::MAX, the largest length I2OSP(., 2) and u16::try_from accept.
U16_MAX == 65535
\* Group::SUITE_ID of Ristretto255 and of P-256.
Ristretto_SUITE_ID == 1
P256_SUITE_ID == 3
SUITE_ID == IF group = "P256" THEN P256_SUITE_ID ELSE Ristretto_SUITE_ID
\* The longest byte transcript the library hashes fits in MixLen bytes.
MixLen == 128
\* Moduli and multipliers of the three lanes of the digest stand-in.
MixModA == 46337
MixMulA == 263
MixModB == 46327
MixMulB == 257
MixModC == 46309
MixMulC == 269

STR_FINALIZE == <<70, 105, 110, 97, 108, 105, 122, 101, 45>>
STR_SEED == <<83, 101, 101, 100, 45>>
STR_CONTEXT == <<67, 111, 110, 116, 101, 120, 116, 45>>
STR_COMPOSITE == <<67, 111, 109, 112, 111, 115, 105, 116, 101, 45>>
STR_CHALLENGE == <<67, 104, 97, 108, 108, 101, 110, 103, 101, 45>>
STR_VOPRF == <<86, 79, 80, 82, 70, 48, 56, 45>>
STR_HASH_TO_GROUP == <<72, 97, 115, 104, 84, 111, 71, 114, 111, 117, 112, 45>>
STR_HASH_TO_SCALAR == <<72, 97, 115, 104, 84, 111, 83, 99, 97, 108, 97, 114, 45>>

Modes == {"Base", "Verifiable"}

\* Mode::to_u8
to_u8(mode) == IF mode = "Base" THEN 0 ELSE 1

(***************************************************************************)
(* Scalars and elements.                                                   *)
(***************************************************************************)
\* One step of a * b modulo Q: the running product x takes five more bits d
\* of b, without leaving 32 bits.
MulStep(x, a, d) == (((x * 32) % Q) + ((a * d) % Q)) % Q

\* a * b modulo Q for a, b < Q < 2^30: b is consumed five bits at a time,
\* from the top.
MulMod(a, b) ==
    IF a = 0 \/ b = 0 THEN 0 ELSE
    LET d5 == (b \div 33554432) % 32
        d4 == (b \div 1048576) % 32
        d3 == (b \div 32768) % 32
        d2 == (b \div 1024) % 32
        d1 == (b \div 32) % 32
        d0 == b % 32
    IN  MulStep(MulStep(MulStep(MulStep(MulStep(MulStep(0, a, d5), a, d4),
                                        a, d3), a, d2), a, d1), a, d0)

ScalarAdd(a, b) == (a + b) % Q
ScalarSub(a, b) == (a + Q - b) % Q
ScalarMul(a, b) == MulMod(a, b)

\* a^d modulo Q for a digit d < 16.
PowDigit(a, d) ==
    LET a2 == MulMod(a, a)
        a4 == MulMod(a2, a2)
        a8 == MulMod(a4, a4)
    IN  MulMod(MulMod(IF d % 2 = 1 THEN a ELSE 1,
                      IF (d \div 2) % 2 = 1 THEN a2 ELSE 1),
               MulMod(IF (d \div 4) % 2 = 1 THEN a4 ELSE 1,
                      IF (d \div 8) % 2 = 1 THEN a8 ELSE 1))

RECURSIVE PowMod(_, _)
\* a^n modulo Q, n consumed four bits at a time: a^n = (a^(n / 16))^16 * a^(n % 16).
PowMod(a, n) ==
    IF n = 0 THEN 1
    ELSE LET h == PowMod(a, n \div 16)
         IN  IF h = 0 THEN 0
             ELSE LET h2 == MulMod(h, h)
                      h4 == MulMod(h2, h2)
                      h8 == MulMod(h4, h4)
                  IN  MulMod(MulMod(h8, h8), PowDigit(a, n % 16))

\* Group::invert_scalar: the modular inverse s^(Q-2); the inverse of zero is
\* zero, and one is its own inverse.
invert_scalar(s) == IF s = 0 THEN 0 ELSE IF s = 1 THEN 1 ELSE PowMod(s, Q - 2)

zero_scalar == 0
base_elem == 1
identity_elem == 0
\* elem * &scalar
ElemMul(e, s) == MulMod(e, s)
\* elem + &elem
ElemAdd(e, f) == (e + f) % Q

(***************************************************************************)
(* Byte strings.                                                           *)
(***************************************************************************)
RECURSIVE LeBytes(_, _)
\* The n-byte little-endian encoding of v.
LeBytes(v, n) == IF n = 0 THEN <<>> ELSE <<v % 256>> \o LeBytes(v \div 256, n - 1)

\* The values of a sequence given by a rule, as a tuple.
Tuple(f) == f \o <<>>

RECURSIVE BeBytes(_, _)
\* The n-byte big-endian encoding of v.
BeBytes(v, n) == IF n = 0 THEN <<>> ELSE BeBytes(v \div 256, n - 1) \o <<v % 256>>

\* Group::serialize_elem (to_arr).  Ristretto255: the compressed point.
\* P-256: the SEC1 compressed point, a tag byte for the sign and the
\* coordinate, copied into a zeroed array; the identity encodes as the single
\* byte 0, so its array is all zero.
serialize_elem(e) ==
    IF group = "P256"
    THEN <<IF e = identity_elem THEN 0 ELSE 2 + (e % 2)>> \o BeBytes(e, ElemLen - 1)
    ELSE LeBytes(e, ElemLen)

\* Group::serialize_scalar (scalar_as_bytes): little-endian for Ristretto255,
\* big-endian for P-256.
serialize_scalar(s) ==
    IF group = "P256" THEN BeBytes(s, ScalarLen) ELSE LeBytes(s, ScalarLen)

\* A part of a hash input: its length in bytes and the tokens hashed for it.
Bytes(s) == [len |-> Len(s), toks |-> s]
\* A caller's byte string x = [len, tag]: its content stands for len bytes.
Data(x) == [len |-> x.len,
            toks |-> IF x.len = 0 THEN <<>>
                     ELSE <<x.tag, x.len % 256, (x.len \div 256) % 256, x.len \div 65536>>]

RECURSIVE TotalLen(_)
TotalLen(parts) == IF parts = <<>> THEN 0 ELSE Head(parts).len + TotalLen(Tail(parts))

RECURSIVE Flatten(_)
Flatten(parts) == IF parts = <<>> THEN <<>> ELSE Head(parts).toks \o Flatten(Tail(parts))

\* util::i2osp_2: the two-byte big-endian encoding; fails above u16::MAX.
i2osp_2(n) ==
    IF n > U16_MAX THEN [ok |-> FALSE, val |-> <<>>]
    ELSE [ok |-> TRUE, val |-> <<n \div 256, n % 256>>]

\* util::i2osp_2_array: the length of a fixed-size array, which always fits.
i2osp_2_array(s) == <<Len(s) \div 256, Len(s) % 256>>

\* get_context_string: "VOPRF08-" || I2OSP(mode, 1) || I2OSP(suite_id, 2)
get_context_string(mode) ==
    STR_VOPRF \o <<to_u8(mode)>> \o <<SUITE_ID \div 256, SUITE_ID % 256>>

Reverse(s) == [i \in 1..Len(s) |-> s[Len(s) + 1 - i]]
\* The value of ScalarLen bytes, least significant first, modulo the order.
ReduceLe(b) ==
    (MulMod((b[4] * 256 + b[3]) % Q, 65536) + b[2] * 256 + b[1]) % Q
\* ScalarLen bytes, least significant first, are the encoding of a value
\* below the order.
CanonicalLe(b) ==
    LET hi == b[4] * 256 + b[3]
        lo == b[2] * 256 + b[1]
    IN  hi < Q \div 65536 \/ (hi = Q \div 65536 /\ lo < Q % 65536)

(***************************************************************************)
(* Hashing.                                                                *)
(***************************************************************************)
RECURSIVE LaneWeights(_, _, _)
\* The weights of a lane for the positions 1..n of a transcript, n a power
\* of two: the powers mul^1 .. mul^n modulo md, built by doubling.
LaneWeights(mul, md, n) ==
    IF n = 1 THEN <<mul % md>>
    ELSE LET h == LaneWeights(mul, md, n \div 2)
             top == h[Len(h)]
         IN  h \o [i \in 1..Len(h) |-> (h[i] * top) % md]

WeightsA == LaneWeights(MixMulA, MixModA, MixLen)
WeightsB == LaneWeights(MixMulB, MixModB, MixLen)
WeightsC == LaneWeights(MixMulC, MixModC, MixLen)

\* One lane of the digest: its seed, the transcript's length and the sum of
\* the weighted bytes (a bag's cardinality is the sum of its counts; the sum
\* of at most MixLen products stays below 2^31), modulo the lane's prime.
Lane(toks, seed, w, md) ==
    (seed + Len(toks)
     + BagCardinality([i \in 1..Len(toks) |-> (toks[i] + 1) * w[i]])) % md

\* The digest of a byte transcript: its three lanes.
Digest(toks) ==
    <<Lane(toks, 7, WeightsA, MixModA),
      Lane(toks, 11, WeightsB, MixModB),
      Lane(toks, 13, WeightsC, MixModC)>>

\* The bytes of a digest, as they are fed to a further hash.
DigestBytes(d) == LeBytes(d[1], 2) \o LeBytes(d[2], 2) \o LeBytes(d[3], 2)

\* CS::Hash: new().chain_update(..)...finalize() over the concatenated parts.
Hash(toks) == Digest(toks)

\* expand_message_xmd(msg, dst): uniform bytes for a message of 1..65535
\* bytes under a domain separation tag.
expand_message_xmd(parts, dst) ==
    IF TotalLen(parts) \notin 1..U16_MAX
    THEN [ok |-> FALSE, val |-> <<0, 0, 0>>]
    ELSE [ok |-> TRUE, val |-> Digest(Flatten(parts) \o dst \o <<Len(dst)>>)]

\* Scalar::from_bytes_mod_order_wide: the wide value reduced modulo the order.
from_bytes_mod_order_wide(u) ==
    (MulMod((u[1] * MixModB + u[2]) % Q, MixModC) + u[3]) % Q

RECURSIVE to_bytes_be(_)
\* BigInt::to_bytes_be: the big-endian bytes of v without leading zero
\* bytes; zero is the single byte 0.
to_bytes_be(v) == IF v < 256 THEN <<v>> ELSE to_bytes_be(v \div 256) \o <<v % 256>>

\* p256.rs hash_to_scalar, after the expansion: the wide value is reduced
\* modulo the order, its bytes are copied to the front of a zeroed array of
\* ScalarLen bytes, and the array is read as a big-endian scalar.
P256_reduce(u) ==
    LET bytes == to_bytes_be(from_bytes_mod_order_wide(u))
        result == [i \in 1..ScalarLen |-> IF i <= Len(bytes) THEN bytes[i] ELSE 0]
    IN  ReduceLe(Reverse(result))

\* Group::hash_to_scalar: expand under "HashToScalar-" || contextString, reduce.
hash_to_scalar(parts, mode) ==
    LET u == expand_message_xmd(parts, STR_HASH_TO_SCALAR \o get_context_string(mode))
    IN  IF ~u.ok THEN [ok |-> FALSE, val |-> 0]
        ELSE [ok |-> TRUE,
              val |-> IF group = "P256" THEN P256_reduce(u.val)
                      ELSE from_bytes_mod_order_wide(u.val)]

\* Group::hash_to_curve: expand under "HashToGroup-" || contextString, map to
\* the group (RistrettoPoint::from_uniform_bytes, ProjectivePoint::hash_from_bytes).
hash_to_curve(parts, mode) ==
    LET u == expand_message_xmd(parts, STR_HASH_TO_GROUP \o get_context_string(mode))
    IN  IF u.ok THEN [ok |-> TRUE, val |-> from_bytes_mod_order_wide(u.val)]
        ELSE [ok |-> FALSE, val |-> 0]

(***************************************************************************)
(* The caller's RNG: the stream of scalars its bytes decode to, in order.   *)
(***************************************************************************)
RECURSIVE Ristretto_random_nonzero_scalar(_)
\* ristretto.rs random_nonzero_scalar: draw until the scalar is not zero.
Ristretto_random_nonzero_scalar(rng) ==
    IF Head(rng) # zero_scalar THEN Head(rng)
    ELSE Ristretto_random_nonzero_scalar(Tail(rng))

\* p256.rs random_nonzero_scalar: Scalar::random draws until the bytes are
\* the encoding of a scalar below the order, which every draw of the stream
\* is; a zero draw is returned as it is.
P256_random_nonzero_scalar(rng) == Head(rng)

\* Group::random_scalar
random_nonzero_scalar(rng) ==
    IF group = "P256" THEN P256_random_nonzero_scalar(rng)
    ELSE Ristretto_random_nonzero_scalar(rng)

(***************************************************************************)
(* Decoding scalars and elements.                                          *)
(***************************************************************************)
\* Group::from_scalar_slice_unchecked.  Ristretto255:
\* Scalar::from_bytes_mod_order, little-endian bytes reduced modulo the order.
\* P-256: Scalar::from_be_bytes_reduced, big-endian bytes reduced.
from_scalar_slice_unchecked(bytes) ==
    IF group = "P256" THEN ReduceLe(Reverse(bytes)) ELSE ReduceLe(bytes)

\* Group::from_element_slice_unchecked.  Ristretto255:
\* CompressedRistretto::decompress, which accepts the canonical encodings,
\* the identity's among them.  P-256: ProjectivePoint::from_bytes, which
\* accepts the all-zero array as the identity and the SEC1 compressed points.
from_element_slice_unchecked(bytes) ==
    IF group = "P256"
    THEN LET x == Reverse(SubSeq(bytes, 2, ElemLen))
         IN  IF \A i \in 1..ElemLen : bytes[i] = 0
             THEN [ok |-> TRUE, val |-> identity_elem]
             ELSE IF CanonicalLe(x) /\ ReduceLe(x) # 0
                     /\ bytes[1] = 2 + (ReduceLe(x) % 2)
             THEN [ok |-> TRUE, val |-> ReduceLe(x)]
             ELSE [ok |-> FALSE, val |-> 0]
    ELSE IF CanonicalLe(bytes) THEN [ok |-> TRUE, val |-> ReduceLe(bytes)]
         ELSE [ok |-> FALSE, val |-> 0]

\* Group::deserialize_scalar: decodes, and rejects the zero scalar.
Group_deserialize_scalar(bytes) ==
    LET s == from_scalar_slice_unchecked(bytes)
    IN  IF s = zero_scalar THEN [ok |-> FALSE, val |-> 0] ELSE [ok |-> TRUE, val |-> s]

\* Group::deserialize_elem: decodes, and rejects the identity element.
Group_deserialize_elem(bytes) ==
    LET e == from_element_slice_unchecked(bytes)
    IN  IF ~e.ok \/ e.val = identity_elem THEN [ok |-> FALSE, val |-> 0]
        ELSE [ok |-> TRUE, val |-> e.val]

(***************************************************************************)
(* Serialization of the states, the messages and the proof.                *)
(***************************************************************************)
\* deserialize_scalar without the group's check of the decoded scalar.
deserialize_scalar_unchecked(input) ==
    IF Len(input) < ScalarLen THEN [ok |-> FALSE, val |-> 0, rest |-> <<>>]
    ELSE [ok |-> TRUE,
          val |-> from_scalar_slice_unchecked(SubSeq(input, 1, ScalarLen)),
          rest |-> SubSeq(input, ScalarLen + 1, Len(input))]

\* deserialize_scalar: takes ScalarLen bytes off the input; fewer bytes, and
\* bytes the group does not accept, are Error::Deserialization.
deserialize_scalar(input) ==
    IF Len(input) < ScalarLen THEN [ok |-> FALSE, val |-> 0, rest |-> <<>>]
    ELSE LET s == Group_deserialize_scalar(SubSeq(input, 1, ScalarLen))
         IN  [ok |-> s.ok, val |-> s.val,
              rest |-> SubSeq(input, ScalarLen + 1, Len(input))]

\* deserialize_elem without the group's check of the decoded element.
deserialize_elem_unchecked(input) ==
    IF Len(input) < ElemLen THEN [ok |-> FALSE, val |-> 0, rest |-> <<>>]
    ELSE LET e == from_element_slice_unchecked(SubSeq(input, 1, ElemLen))
         IN  [ok |-> e.ok, val |-> e.val,
              rest |-> SubSeq(input, ElemLen + 1, Len(input))]

\* deserialize_elem: takes ElemLen bytes off the input; fewer bytes, and
\* bytes the group does not accept, are Error::Deserialization.
deserialize_elem(input) ==
    IF Len(input) < ElemLen THEN [ok |-> FALSE, val |-> 0, rest |-> <<>>]
    ELSE LET e == Group_deserialize_elem(SubSeq(input, 1, ElemLen))
         IN  [ok |-> e.ok, val |-> e.val,
              rest |-> SubSeq(input, ElemLen + 1, Len(input))]

Deserialization_error == [err |-> "Deserialization", val |-> <<>>]

\* NonVerifiableClient::serialize / deserialize: the blind.
NonVerifiableClient_serialize(self) == serialize_scalar(self.blind)
NonVerifiableClient_deserialize(input) ==
    LET blind_scalar == deserialize_scalar(input)
    IN  IF ~blind_scalar.ok THEN Deserialization_error
        ELSE [err |-> "Ok",
              val |-> [blind |-> blind_scalar.val, blinded_element |-> 0]]

\* VerifiableClient::serialize / deserialize: the blind, then the blinded
\* element.
VerifiableClient_serialize(self) ==
    serialize_scalar(self.blind) \o serialize_elem(self.blinded_element)
VerifiableClient_deserialize(input) ==
    LET blind_scalar == deserialize_scalar(input)
    IN  IF ~blind_scalar.ok THEN Deserialization_error
        ELSE LET blinded_element == deserialize_elem(blind_scalar.rest)
             IN  IF ~blinded_element.ok THEN Deserialization_error
                 ELSE [err |-> "Ok",
                       val |-> [blind |-> blind_scalar.val,
                                blinded_element |-> blinded_element.val]]

\* NonVerifiableServer::serialize / deserialize: the private key.
NonVerifiableServer_serialize(self) == serialize_scalar(self.sk)
NonVerifiableServer_deserialize(input) ==
    LET sk == deserialize_scalar(input)
    IN  IF ~sk.ok THEN Deserialization_error
        ELSE [err |-> "Ok", val |-> [sk |-> sk.val, pk |-> 0]]

\* VerifiableServer::serialize / deserialize: the private key, then the
\* public key; each is decoded on its own.
VerifiableServer_serialize(self) ==
    serialize_scalar(self.sk) \o serialize_elem(self.pk)
VerifiableServer_deserialize(input) ==
    LET sk == deserialize_scalar(input)
    IN  IF ~sk.ok THEN Deserialization_error
        ELSE LET pk == deserialize_elem(sk.rest)
             IN  IF ~pk.ok THEN Deserialization_error
                 ELSE [err |-> "Ok", val |-> [sk |-> sk.val, pk |-> pk.val]]

\* Proof::serialize / deserialize: c, then s.
Proof_serialize(self) ==
    serialize_scalar(self.c_scalar) \o serialize_scalar(self.s_scalar)
Proof_deserialize(input) ==
    LET c_scalar == deserialize_scalar(input)
    IN  IF ~c_scalar.ok THEN Deserialization_error
        ELSE LET s_scalar == deserialize_scalar(c_scalar.rest)
             IN  IF ~s_scalar.ok THEN Deserialization_error
                 ELSE [err |-> "Ok",
                       val |-> [c_scalar |-> c_scalar.val,
                                s_scalar |-> s_scalar.val]]

\* BlindedElement::serialize / deserialize and EvaluationElement::serialize /
\* deserialize: the element.
BlindedElement_serialize(self) == serialize_elem(self)
BlindedElement_deserialize(input) ==
    LET value == deserialize_elem(input)
    IN  IF ~value.ok THEN Deserialization_error ELSE [err |-> "Ok", val |-> value.val]
EvaluationElement_serialize(self) == serialize_elem(self)
EvaluationElement_deserialize(input) ==
    LET value == deserialize_elem(input)
    IN  IF ~value.ok THEN Deserialization_error ELSE [err |-> "Ok", val |-> value.val]

(***************************************************************************)
(* Blind.                                                                  *)
(***************************************************************************)
\* deterministic_blind_unchecked: hash the input to the group, multiply by
\* the blind; a failure of hash_to_curve is reported as Input.
deterministic_blind_unchecked(input, blind_scalar, mode) ==
    LET hashed_point == hash_to_curve(<<Data(input)>>, mode)
    IN  IF ~hashed_point.ok THEN [err |-> "Input", val |-> 0]
        ELSE [err |-> "Ok", val |-> ElemMul(hashed_point.val, blind_scalar)]

\* blind: choose a random non-zero scalar, then blind with it.
blind(input, blinding_factor_rng, mode) ==
    LET blind_scalar == random_nonzero_scalar(blinding_factor_rng)
        blinded_element == deterministic_blind_unchecked(input, blind_scalar, mode)
    IN  IF blinded_element.err # "Ok"
        THEN [err |-> blinded_element.err, blind |-> 0, blinded_element |-> 0]
        ELSE [err |-> "Ok", blind |-> blind_scalar,
              blinded_element |-> blinded_element.val]

\* NonVerifiableClient::blind: state {blind}, message BlindedElement.
NonVerifiableClient_blind(input, blinding_factor_rng) ==
    LET r == blind(input, blinding_factor_rng, "Base")
    IN  [err |-> r.err,
         state |-> [blind |-> r.blind, blinded_element |-> 0],
         message |-> r.blinded_element]

\* A blind whose state keeps the hashed point instead of the blinded one.
VerifiableClient_blind_unblinded(input, blinding_factor_rng) ==
    LET r == blind(input, blinding_factor_rng, "Verifiable")
        hashed_point == hash_to_curve(<<Data(input)>>, "Verifiable")
    IN  [err |-> r.err,
         state |-> [blind |-> r.blind,
                    blinded_element |-> IF r.err = "Ok" THEN hashed_point.val ELSE 0],
         message |-> r.blinded_element]

\* VerifiableClient::blind: state {blind, blinded_element}, message
\* BlindedElement.
VerifiableClient_blind(input, blinding_factor_rng) ==
    LET r == blind(input, blinding_factor_rng, "Verifiable")
    IN  [err |-> r.err,
         state |-> [blind |-> r.blind, blinded_element |-> r.blinded_element],
         message |-> r.blinded_element]

(***************************************************************************)
(* Servers.                                                                *)
(***************************************************************************)
\* NonVerifiableServer::new_with_key
NonVerifiableServer_new_with_key(private_key_bytes) ==
    LET sk == Group_deserialize_scalar(private_key_bytes)
    IN  IF ~sk.ok THEN [err |-> "Deserialization", sk |-> 0, pk |-> 0]
        ELSE [err |-> "Ok", sk |-> sk.val, pk |-> 0]

\* new_with_key over the unchecked decoding, which takes the zero scalar.
VerifiableServer_new_with_key_unchecked(key) ==
    LET sk == from_scalar_slice_unchecked(key)
    IN  [err |-> "Ok", sk |-> sk, pk |-> ElemMul(base_elem, sk)]

\* VerifiableServer::new_with_key: pk = g * sk
VerifiableServer_new_with_key(key) ==
    LET sk == Group_deserialize_scalar(key)
    IN  IF ~sk.ok THEN [err |-> "Deserialization", sk |-> 0, pk |-> 0]
        ELSE [err |-> "Ok", sk |-> sk.val, pk |-> ElemMul(base_elem, sk.val)]

\* A new_from_seed that reduces the digest of whatever seed it is given,
\* without the checks of the expansion.
VerifiableServer_new_from_seed_unchecked(seed) ==
    LET dst == STR_HASH_TO_SCALAR \o get_context_string("Verifiable")
        sk == from_bytes_mod_order_wide(Digest(Data(seed).toks \o dst \o <<Len(dst)>>))
    IN  [err |-> "Ok", sk |-> sk, pk |-> ElemMul(base_elem, sk)]

\* NonVerifiableServer::new_from_seed: sk = HashToScalar(seed); a failure of
\* hash_to_scalar is reported as Seed.
NonVerifiableServer_new_from_seed(seed) ==
    LET sk == hash_to_scalar(<<Data(seed)>>, "Base")
    IN  IF ~sk.ok THEN [err |-> "Seed", sk |-> 0, pk |-> 0]
        ELSE [err |-> "Ok", sk |-> sk.val, pk |-> 0]

\* VerifiableServer::new_from_seed: sk = HashToScalar(seed), pk = g * sk
VerifiableServer_new_from_seed(seed) ==
    LET sk == hash_to_scalar(<<Data(seed)>>, "Verifiable")
    IN  IF ~sk.ok THEN [err |-> "Seed", sk |-> 0, pk |-> 0]
        ELSE [err |-> "Ok", sk |-> sk.val, pk |-> ElemMul(base_elem, sk.val)]

\* The seed new(rng) fills from the RNG: as many bytes as the hash puts out.
rng_seed(rng) == [len |-> Len(DigestBytes(<<0, 0, 0>>)), tag |-> Head(rng)]

\* NonVerifiableServer::new / VerifiableServer::new:
\* new_from_seed(seed).unwrap() over a seed from the RNG.
NonVerifiableServer_new(rng) ==
    LET r == NonVerifiableServer_new_from_seed(rng_seed(rng))
    IN  IF r.err # "Ok" THEN [r EXCEPT !.err = "Panic"] ELSE r
VerifiableServer_new(rng) ==
    LET r == VerifiableServer_new_from_seed(rng_seed(rng))
    IN  IF r.err # "Ok" THEN [r EXCEPT !.err = "Panic"] ELSE r

\* context = "Context-" || contextString || I2OSP(len(info), 2) || info
\* m = GG.HashToScalar(context); either failure is reported as Metadata.
metadata_scalar(metadata, mode) ==
    LET l == i2osp_2(metadata.len)
    IN  IF ~l.ok THEN [ok |-> FALSE, val |-> 0]
        ELSE hash_to_scalar(
                 <<Bytes(STR_CONTEXT \o get_context_string(mode) \o l.val),
                   Data(metadata)>>, mode)

\* NonVerifiableServer::evaluate: t = skS + m, Z = t^(-1) * R
NonVerifiableServer_evaluate(sk, blinded_element, metadata) ==
    LET m == metadata_scalar(metadata, "Base")
    IN  IF ~m.ok THEN [err |-> "Metadata", message |-> 0]
        ELSE LET t == ScalarAdd(sk, m.val)
                 z == ElemMul(blinded_element, invert_scalar(t))
             IN  [err |-> "Ok", message |-> z]

(***************************************************************************)
(* The DLEQ proof engine.                                                  *)
(***************************************************************************)
Batch_error == [err |-> "Batch", m |-> 0, z |-> 0]

\* The scalar di of position i (0-based) in compute_composites:
\* h2Input = I2OSP(len(seed), 2) || seed || I2OSP(i, 2) ||
\*           I2OSP(len(Ci), 2) || Ci || I2OSP(len(Di), 2) || Di ||
\*           I2OSP(len(compositeDST), 2) || compositeDST
composite_scalar(seed, i, c, d) ==
    LET elem_len == <<ElemLen \div 256, ElemLen % 256>>
        composite_dst == STR_COMPOSITE \o get_context_string("Verifiable")
        seed_bytes == DigestBytes(seed)
        h2_input == <<Bytes(i2osp_2_array(seed_bytes)), Bytes(seed_bytes),
                      Bytes(<<i \div 256, i % 256>>),
                      Bytes(elem_len), Bytes(serialize_elem(c)),
                      Bytes(elem_len), Bytes(serialize_elem(d)),
                      Bytes(i2osp_2_array(composite_dst)), Bytes(composite_dst)>>
    IN  hash_to_scalar(h2_input, "Verifiable").val

\* The sum of the group elements es[1..n], n <= 65536: the low and the high
\* 13 bits of the exponents are added up apart (each sum stays below 2^31)
\* and put together mod Q.
ElemSum(es) ==
    LET lo == BagCardinality([i \in 1..Len(es) |-> (es[i] % 8192) + 1]) - Len(es)
        hi == BagCardinality([i \in 1..Len(es) |-> (es[i] \div 8192) + 1]) - Len(es)
    IN  (MulMod(hi % Q, 8192) + lo) % Q

\* compute_composites without the comparison of the two counts: the
\* elements are paired as far as both sequences go.
compute_composites_unchecked(k_option, b, c_slice, d_slice) ==
    IF Len(c_slice) > U16_MAX THEN Batch_error
    ELSE LET len == IF Len(c_slice) < Len(d_slice) THEN Len(c_slice) ELSE Len(d_slice)
             elem_len == <<ElemLen \div 256, ElemLen % 256>>
             seed_dst == STR_SEED \o get_context_string("Verifiable")
             seed == Hash(elem_len \o serialize_elem(b)
                          \o i2osp_2_array(seed_dst) \o seed_dst)
             dis == Tuple([i \in 1..len |->
                              composite_scalar(seed, i - 1, c_slice[i], d_slice[i])])
             m == ElemSum(Tuple([i \in 1..len |-> ElemMul(c_slice[i], dis[i])]))
             z == IF k_option.some THEN ElemMul(m, k_option.k)
                  ELSE ElemSum(Tuple([i \in 1..len |-> ElemMul(d_slice[i], dis[i])]))
         IN  [err |-> "Ok", m |-> m, z |-> z]

\* compute_composites: can only fail with Batch.  The loop
\* m = c * di + m, and without the key z = d * di + z, is taken as the sums.
compute_composites(k_option, b, c_slice, d_slice) ==
    IF Len(c_slice) # Len(d_slice) THEN Batch_error
    ELSE IF Len(c_slice) > U16_MAX THEN Batch_error
    ELSE LET len == Len(c_slice)
             elem_len == <<ElemLen \div 256, ElemLen % 256>>
             seed_dst == STR_SEED \o get_context_string("Verifiable")
             seed == Hash(elem_len \o serialize_elem(b)
                          \o i2osp_2_array(seed_dst) \o seed_dst)
             dis == Tuple([i \in 1..len |->
                              composite_scalar(seed, i - 1, c_slice[i], d_slice[i])])
             m == ElemSum(Tuple([i \in 1..len |-> ElemMul(c_slice[i], dis[i])]))
             z == IF k_option.some THEN ElemMul(m, k_option.k)
                  ELSE ElemSum(Tuple([i \in 1..len |-> ElemMul(d_slice[i], dis[i])]))
         IN  [err |-> "Ok", m |-> m, z |-> z]

\* The challenge of generate_proof and verify_proof:
\* h2Input = I2OSP(len(Bm), 2) || Bm || I2OSP(len(a0), 2) || a0 || ... ||
\*           I2OSP(len(challengeDST), 2) || challengeDST
challenge_scalar(b, m, z, t2, t3) ==
    LET elem_len == <<ElemLen \div 256, ElemLen % 256>>
        challenge_dst == STR_CHALLENGE \o get_context_string("Verifiable")
        h2_input == <<Bytes(elem_len), Bytes(serialize_elem(b)),
                      Bytes(elem_len), Bytes(serialize_elem(m)),
                      Bytes(elem_len), Bytes(serialize_elem(z)),
                      Bytes(elem_len), Bytes(serialize_elem(t2)),
                      Bytes(elem_len), Bytes(serialize_elem(t3)),
                      Bytes(i2osp_2_array(challenge_dst)), Bytes(challenge_dst)>>
    IN  hash_to_scalar(h2_input, "Verifiable").val

\* A response that adds the product to the nonce: s = r + c * k.
generate_proof_response_added(c_scalar, r, k) ==
    [err |-> "Ok", c_scalar |-> c_scalar,
     s_scalar |-> ScalarAdd(r, ScalarMul(c_scalar, k))]

\* generate_proof, from the challenge c on: s = r - c * k.
generate_proof_response(c_scalar, r, k) ==
    [err |-> "Ok", c_scalar |-> c_scalar,
     s_scalar |-> ScalarSub(r, ScalarMul(c_scalar, k))]
\* generate_proof, from the composites (M, Z) and the nonce r on: the
\* commitments t2 = a * r and t3 = M * r and the challenge over them.
generate_proof_challenge(mz, r, k, a, b) ==
    IF mz.err # "Ok" THEN [err |-> mz.err, c_scalar |-> 0, s_scalar |-> 0]
    ELSE LET t2 == ElemMul(a, r)
             t3 == ElemMul(mz.m, r)
         IN  generate_proof_response(challenge_scalar(b, mz.m, mz.z, t2, t3), r, k)
\* generate_proof: can only fail with Batch.  rng yields the nonce r.
generate_proof(rng, k, a, b, cs, ds) ==
    generate_proof_challenge(compute_composites([some |-> TRUE, k |-> k], b, cs, ds),
                             random_nonzero_scalar(rng), k, a, b)

\* verify_proof without its last step: the challenge is recomputed and never
\* compared with the proof's.
verify_proof_uncompared(a, b, cs, ds, proof) ==
    compute_composites([some |-> FALSE, k |-> 0], b, cs, ds).err

\* verify_proof, from the composites (M, Z) on: t2 = a * s + b * c,
\* t3 = M * s + Z * c, and the challenge over them compared with the proof's.
verify_proof_challenge(mz, a, b, proof) ==
    IF mz.err # "Ok" THEN mz.err
    ELSE LET t2 == ElemAdd(ElemMul(a, proof.s_scalar), ElemMul(b, proof.c_scalar))
             t3 == ElemAdd(ElemMul(mz.m, proof.s_scalar),
                           ElemMul(mz.z, proof.c_scalar))
             c == challenge_scalar(b, mz.m, mz.z, t2, t3)
         IN  IF c = proof.c_scalar THEN "Ok" ELSE "ProofVerification"
\* verify_proof: can only fail with ProofVerification or Batch.
verify_proof(a, b, cs, ds, proof) ==
    verify_proof_challenge(compute_composites([some |-> FALSE, k |-> 0], b, cs, ds),
                           a, b, proof)

(***************************************************************************)
(* The verifiable server.                                                  *)
(***************************************************************************)
\* VerifiableServer::batch_evaluate_prepare: t = sk + m and the elements
\* x * t^(-1), in the order of the blinded elements.
batch_evaluate_prepare(sk, blinded_elements, metadata) ==
    LET m == metadata_scalar(metadata, "Verifiable")
    IN  IF ~m.ok THEN [err |-> "Metadata", prepared_evaluation_elements |-> <<>>, t |-> 0]
        ELSE LET t == ScalarAdd(sk, m.val)
                 ti == invert_scalar(t)
             IN  [err |-> "Ok",
                  prepared_evaluation_elements |->
                      [i \in 1..Len(blinded_elements) |-> ElemMul(blinded_elements[i], ti)],
                  t |-> t]

\* batch_evaluate_finish, from the generated proof on: the prepared
\* elements become the messages.
batch_evaluate_finish_result(generated, evaluation_elements) ==
    IF generated.err # "Ok"
    THEN [err |-> generated.err, messages |-> <<>>,
          proof |-> [c_scalar |-> 0, s_scalar |-> 0]]
    ELSE [err |-> "Ok", messages |-> evaluation_elements,
          proof |-> [c_scalar |-> generated.c_scalar,
                     s_scalar |-> generated.s_scalar]]
\* VerifiableServer::batch_evaluate_finish: the proof over (g, g * t) with
\* the prepared elements as Cs and the blinded elements as Ds.
batch_evaluate_finish(rng, blinded_elements, evaluation_elements, t) ==
    LET g == base_elem
        u == ElemMul(g, t)
    IN  batch_evaluate_finish_result(
            generate_proof(rng, t, g, u, evaluation_elements, blinded_elements),
            evaluation_elements)

\* VerifiableServer::evaluate, from the result of batch_evaluate_finish on.
VerifiableServer_evaluate_result(f) ==
    [err |-> "Ok", message |-> f.messages[1], proof |-> f.proof]
\* VerifiableServer::evaluate, from the result of batch_evaluate_prepare on.
VerifiableServer_evaluate_finish(p, rng, blinded_element) ==
    IF p.err # "Ok"
    THEN [err |-> p.err, message |-> 0, proof |-> [c_scalar |-> 0, s_scalar |-> 0]]
    ELSE LET prepared_element == <<p.prepared_evaluation_elements[1]>>
         IN  VerifiableServer_evaluate_result(
                 batch_evaluate_finish(rng, <<blinded_element>>, prepared_element, p.t))
\* VerifiableServer::evaluate: prepare and finish over the one element.
VerifiableServer_evaluate(sk, rng, blinded_element, metadata) ==
    VerifiableServer_evaluate_finish(
        batch_evaluate_prepare(sk, <<blinded_element>>, metadata), rng, blinded_element)

\* VerifiableServer::batch_evaluate, from the result of batch_evaluate_finish
\* on: the result is unwrapped, so that a failure of it is a panic.
VerifiableServer_batch_evaluate_result(f) ==
    [err |-> IF f.err # "Ok" THEN "Panic" ELSE "Ok",
     messages |-> f.messages, proof |-> f.proof]
\* VerifiableServer::batch_evaluate, from the result of
\* batch_evaluate_prepare on: the prepared elements are collected and
\* finished.
VerifiableServer_batch_evaluate_finish(p, rng, blinded_elements) ==
    IF p.err # "Ok"
    THEN [err |-> p.err, messages |-> <<>>, proof |-> [c_scalar |-> 0, s_scalar |-> 0]]
    ELSE VerifiableServer_batch_evaluate_result(
             batch_evaluate_finish(rng, blinded_elements,
                                   p.prepared_evaluation_elements, p.t))
\* VerifiableServer::batch_evaluate: prepare and finish over the elements.
VerifiableServer_batch_evaluate(sk, rng, blinded_elements, metadata) ==
    VerifiableServer_batch_evaluate_finish(
        batch_evaluate_prepare(sk, blinded_elements, metadata), rng, blinded_elements)

(***************************************************************************)
(* Finalize.                                                               *)
(***************************************************************************)
Min(a, b) == IF a < b THEN a ELSE b

\* verifiable_unblind with the context built over no metadata: the proof is
\* verified against g * m("") + pk whatever info is passed.
verifiable_unblind_unbound(clients_, messages, pk, proof, info) ==
    LET m == metadata_scalar([len |-> 0, tag |-> 0], "Verifiable")
        g == base_elem
        u == ElemAdd(ElemMul(g, m.val), pk)
        blinded_elements == [i \in 1..Len(clients_) |-> clients_[i].blinded_element]
        v == verify_proof(g, u, messages, blinded_elements, proof)
    IN  IF v # "Ok" THEN [err |-> v, unblinded |-> <<>>]
        ELSE [err |-> "Ok",
              unblinded |->
                  [i \in 1..Min(Len(clients_), Len(messages)) |->
                      ElemMul(messages[i], invert_scalar(clients_[i].blind))]]

\* An unblinding that does not wait for the verdict of verify_proof.
verifiable_unblind_result_unverified(v, blinds, messages) ==
    [err |-> "Ok",
     unblinded |->
         [i \in 1..Min(Len(blinds), Len(messages)) |->
             ElemMul(messages[i], invert_scalar(blinds[i]))]]

\* verifiable_unblind, from the verdict v of verify_proof on: the
\* messages are unblinded when the proof verified.
verifiable_unblind_result(v, blinds, messages) ==
    IF v # "Ok" THEN [err |-> v, unblinded |-> <<>>]
    ELSE [err |-> "Ok",
          unblinded |->
              [i \in 1..Min(Len(blinds), Len(messages)) |->
                  ElemMul(messages[i], invert_scalar(blinds[i]))]]
\* verifiable_unblind: can only fail with Metadata, Batch or
\* ProofVerification.  Yields x * blind^(-1) per (client, message) pair.
verifiable_unblind(clients_, messages, pk, proof, info) ==
    LET m == metadata_scalar(info, "Verifiable")
    IN  IF ~m.ok THEN [err |-> "Metadata", unblinded |-> <<>>]
        ELSE LET g == base_elem
                 t == ElemMul(g, m.val)
                 u == ElemAdd(t, pk)
                 blinds == [i \in 1..Len(clients_) |-> clients_[i].blind]
                 evaluation_elements == messages
                 blinded_elements ==
                     [i \in 1..Len(clients_) |-> clients_[i].blinded_element]
             IN  verifiable_unblind_result(
                     verify_proof(g, u, evaluation_elements, blinded_elements, proof),
                     blinds, messages)

\* One item of finalize_after_unblind:
\* hashInput = I2OSP(len(input), 2) || input || I2OSP(len(info), 2) || info ||
\*             I2OSP(len(unblindedElement), 2) || unblindedElement ||
\*             I2OSP(len(finalizeDST), 2) || finalizeDST
finalize_item(input, unblinded_element, info, mode) ==
    LET finalize_dst == STR_FINALIZE \o get_context_string(mode)
        finalize_dst_len == i2osp_2_array(finalize_dst)
        elem_len == <<ElemLen \div 256, ElemLen % 256>>
        input_len == i2osp_2(input.len)
        info_len == i2osp_2(info.len)
    IN  IF ~input_len.ok THEN [err |-> "Input", out |-> <<0, 0, 0>>]
        ELSE IF ~info_len.ok THEN [err |-> "Metadata", out |-> <<0, 0, 0>>]
        ELSE [err |-> "Ok",
              out |-> Hash(input_len.val \o Data(input).toks
                           \o info_len.val \o Data(info).toks
                           \o elem_len \o serialize_elem(unblinded_element)
                           \o finalize_dst_len \o finalize_dst)]

\* finalize_after_unblind: one result per (input, unblinded element) pair.
finalize_after_unblind(inputs_and_unblinded_elements, info, mode) ==
    [i \in 1..Len(inputs_and_unblinded_elements) |->
        finalize_item(inputs_and_unblinded_elements[i][1],
                      inputs_and_unblinded_elements[i][2], info, mode)]

\* NonVerifiableClient::finalize with the unblinding left out: the evaluation
\* element is hashed as it came from the server.
NonVerifiableClient_finalize_blinded(self, input, evaluation_element, metadata) ==
    finalize_after_unblind(<<<<input, evaluation_element>>>>, metadata, "Base")[1]

\* NonVerifiableClient::finalize
NonVerifiableClient_finalize(self, input, evaluation_element, metadata) ==
    LET unblinded_element == ElemMul(evaluation_element, invert_scalar(self.blind))
        outputs == finalize_after_unblind(<<<<input, unblinded_element>>>>,
                                          metadata, "Base")
    IN  outputs[1]

\* VerifiableClient::batch_finalize zipping the inputs with the messages as
\* they came from the server instead of the unblinded elements.
batch_finalize_blinded(inputs_, clients_, messages, proof, pk, metadata) ==
    LET unblinded_elements == verifiable_unblind(clients_, messages, pk, proof, metadata)
    IN  IF unblinded_elements.err # "Ok"
        THEN [err |-> unblinded_elements.err, outputs |-> <<>>]
        ELSE [err |-> "Ok",
              outputs |->
                  finalize_after_unblind(
                      [i \in 1..Min(Len(inputs_), Min(Len(clients_), Len(messages))) |->
                          <<inputs_[i], messages[i]>>],
                      metadata, "Verifiable")]

\* A batch_finalize that hands its outputs back in the reverse order.
batch_finalize_reversed(inputs_, clients_, messages, proof, pk, metadata) ==
    LET unblinded_elements == verifiable_unblind(clients_, messages, pk, proof, metadata)
    IN  IF unblinded_elements.err # "Ok"
        THEN [err |-> unblinded_elements.err, outputs |-> <<>>]
        ELSE LET inputs_and_unblinded_elements ==
                     [i \in 1..Min(Len(inputs_), Min(Len(clients_), Len(messages))) |->
                         <<inputs_[i], unblinded_elements.unblinded[i]>>]
             IN  [err |-> "Ok",
                  outputs |-> Reverse(finalize_after_unblind(inputs_and_unblinded_elements,
                                                             metadata, "Verifiable"))]

\* A batch_finalize that reports a number of inputs different from the
\* number of unblinded elements as Batch.
batch_finalize_outputs_counted(unblinded_elements, inputs_, clients_, messages, metadata) ==
    IF unblinded_elements.err # "Ok"
    THEN [err |-> unblinded_elements.err, outputs |-> <<>>]
    ELSE IF Len(inputs_) # Len(unblinded_elements.unblinded)
    THEN [err |-> "Batch", outputs |-> <<>>]
    ELSE [err |-> "Ok",
          outputs |->
              finalize_after_unblind(
                  [i \in 1..Len(inputs_) |-> <<inputs_[i], unblinded_elements.unblinded[i]>>],
                  metadata, "Verifiable")]

\* batch_finalize, from the result of verifiable_unblind on: the inputs are
\* zipped with the unblinded elements.
batch_finalize_outputs(unblinded_elements, inputs_, clients_, messages, metadata) ==
    IF unblinded_elements.err # "Ok"
    THEN [err |-> unblinded_elements.err, outputs |-> <<>>]
    ELSE LET inputs_and_unblinded_elements ==
                 [i \in 1..Min(Len(inputs_), Min(Len(clients_), Len(messages))) |->
                     <<inputs_[i], unblinded_elements.unblinded[i]>>]
         IN  [err |-> "Ok",
              outputs |-> finalize_after_unblind(inputs_and_unblinded_elements,
                                                 metadata, "Verifiable")]
\* VerifiableClient::batch_finalize: the proof is verified over all pairs,
\* then inputs are zipped with the unblinded elements.
batch_finalize(inputs_, clients_, messages, proof, pk, metadata) ==
    batch_finalize_outputs(verifiable_unblind(clients_, messages, pk, proof, metadata),
                           inputs_, clients_, messages, metadata)

\* VerifiableClient::finalize, from the result of batch_finalize on.
VerifiableClient_finalize_result(batch_result) ==
    IF batch_result.err # "Ok" THEN [err |-> batch_result.err, out |-> <<0, 0, 0>>]
    ELSE batch_result.outputs[1]
\* VerifiableClient::finalize: batch_finalize over the one client.
VerifiableClient_finalize(self, input, evaluation_element, proof, pk, metadata) ==
    VerifiableClient_finalize_result(
        batch_finalize(<<input>>, <<self>>, <<evaluation_element>>, proof, pk, metadata))

\* tests::prf, the reference the tests compare finalize with:
\* H(framing of input, info and hash_to_curve(input) * (key + m)^(-1)).
prf(input, key, info, mode) ==
    LET point == hash_to_curve(<<Data(input)>>, mode).val
        m == metadata_scalar(info, mode).val
        res == ElemMul(point, invert_scalar(ScalarAdd(key, m)))
    IN  finalize_after_unblind(<<<<input, res>>>>, info, mode)[1].out

(***************************************************************************)
(* Zeroization.  Every state, message and proof derives Zeroize: zeroize   *)
(* zeroizes each field in turn.  A zeroized scalar is the zero scalar, a   *)
(* zeroized element the identity of the group.                             *)
(***************************************************************************)
\* A zeroize of the client state that leaves the blinded element in place.
VerifiableClient_zeroize_blind(self) ==
    [blind |-> zero_scalar, blinded_element |-> self.blinded_element]

NonVerifiableClient_zeroize(self) == [self EXCEPT !.blind = zero_scalar]
VerifiableClient_zeroize(self) ==
    [blind |-> zero_scalar, blinded_element |-> identity_elem]
NonVerifiableServer_zeroize(self) == [self EXCEPT !.sk = zero_scalar]
VerifiableServer_zeroize(self) == [sk |-> zero_scalar, pk |-> identity_elem]
Proof_zeroize(self) == [c_scalar |-> zero_scalar, s_scalar |-> zero_scalar]
BlindedElement_zeroize(self) == identity_elem
EvaluationElement_zeroize(self) == identity_elem

(***************************************************************************)
(* The scalars of an evaluation once it is over.  PreparedTscalar derives  *)
(* Zeroize(drop): its drop zeroizes the scalar.  The scalars t and t^(-1)  *)
(* of evaluate and of batch_evaluate_prepare are values of the group's     *)
(* Scalar type, held in a local and in the Repeat iterator of the prepared *)
(* elements: their drop writes nothing, so that their storage keeps the    *)
(* scalar until it is used again for something else (here: for zero).      *)
(***************************************************************************)
PreparedTscalar_drop(self) == zero_scalar
Scalar_drop(self) == {self, zero_scalar}

\* NonVerifiableServer::evaluate: t, and the inverse handed to the
\* multiplication.
NonVerifiableServer_evaluate_scalars(sk, metadata) ==
    LET t == ScalarAdd(sk, metadata_scalar(metadata, "Base").val)
    IN  [t |-> t, inverse |-> invert_scalar(t)]
\* VerifiableServer::batch_evaluate_prepare: t, and the inverse repeated for
\* the blinded elements.
batch_evaluate_prepare_scalars(sk, metadata) ==
    LET t == ScalarAdd(sk, metadata_scalar(metadata, "Verifiable").val)
    IN  [t |-> t, inverse |-> invert_scalar(t)]

(***************************************************************************)
(* The inputs the model draws.                                             *)
(***************************************************************************)
EmptyInfo == [len |-> 0, tag |-> 0]
\* Inputs and metadata of ordinary length, told apart by their tag.
Inputs == {[len |-> 4 + t, tag |-> t] : t \in 1..MaxTag}
Infos == {EmptyInfo} \cup {[len |-> 3 + t, tag |-> t] : t \in 1..MaxTag}
\* Inputs at the ends of the accepted lengths, and just outside them.
LenInputs == {[len |-> n, tag |-> 1] : n \in {0, 1, U16_MAX, U16_MAX + 1}}
\* Metadata at the end of the lengths that fit the context, and beyond it.
LenInfos ==
    {EmptyInfo}
    \cup {[len |-> n, tag |-> 1] :
             n \in {U16_MAX - 21, U16_MAX - 20, U16_MAX, U16_MAX + 1}}
\* Seeds of ordinary length, and at the ends of the accepted lengths.
Seeds == {[len |-> 8, tag |-> 1]}
LenSeeds == {[len |-> n, tag |-> 1] : n \in {0, 1, U16_MAX, U16_MAX + 1}}
\* RNG streams: one non-zero draw, or a zero draw first.
RngStreams == {<<s>> : s \in 1..MaxScalar} \cup {<<0, 1>>}
\* The private key for which sk + m = 0 under the empty metadata.
ZeroTKey(mode) == ScalarSub(0, metadata_scalar(EmptyInfo, mode).val)
\* Private key bytes handed to new_with_key: small keys, the all-zero
\* encoding, and the key colliding with the empty metadata.
KeyBytes(mode) ==
    {serialize_scalar(k) : k \in (0..MaxScalar) \cup {ZeroTKey(mode)}}
\* The wrong public key of the tests: hash_to_curve("msg") in Base mode.
TestWrongPk == hash_to_curve(<<Data([len |-> 3, tag |-> 77])>>, "Base").val
NoProof == [c_scalar |-> 0, s_scalar |-> 0]
NoCall == [op |-> "none", inputs |-> <<>>, clients |-> <<>>, messages |-> <<>>,
           pk |-> 0, info |-> EmptyInfo, key |-> <<>>]
NoResult == [err |-> "None", outputs |-> <<>>]

(***************************************************************************)
(* The protocol run: a server is created, clients blind their inputs, the  *)
(* server evaluates the blinded elements, the client finalizes.            *)
(***************************************************************************)
VARIABLES
    sizes,       \* ordinary or boundary: the lengths the callers' data have
    mode,        \* Base or Verifiable
    pc,          \* new, blind, prepared, evaluated, done, failed, wire
    server,      \* [sk, pk]
    inputs,      \* the inputs blinded, in order
    clients,     \* the client states, in order: [blind, blinded_element]
    blinded,     \* the BlindedElement messages, in order
    metadata,    \* the metadata the server evaluated with
    prepared,    \* prepared evaluation elements and t, after prepare
    evals,       \* the EvaluationElement messages, in order
    proof,       \* the server's proof
    call,        \* the arguments of the last operation
    result       \* what the last operation returned

vars == <<group, sizes, mode, pc, server, inputs, clients, blinded, metadata, prepared,
          evals, proof, call, result>>

Start ==
    /\ group \in Groups
    /\ mode \in Modes
    /\ pc = "new"
    /\ server = [sk |-> 0, pk |-> 0]
    /\ inputs = <<>>
    /\ clients = <<>>
    /\ blinded = <<>>
    /\ metadata = EmptyInfo
    /\ prepared = [elements |-> <<>>, t |-> 0]
    /\ evals = <<>>
    /\ proof = NoProof
    /\ call = NoCall
    /\ result = NoResult

Init == sizes = "ordinary" /\ Start
InitLen == sizes = "boundary" /\ Start

\* What the callers choose from.  A batch beyond MaxBatch is evaluated with
\* one metadata and one nonce.
InputChoices == IF sizes = "boundary" THEN LenInputs ELSE Inputs
SeedChoices == IF sizes = "boundary" THEN LenSeeds ELSE Seeds
InfoChoices ==
    IF Len(clients) > MaxBatch THEN {EmptyInfo}
    ELSE IF sizes = "boundary" THEN LenInfos ELSE Infos
RngChoices == IF Len(clients) > MaxBatch THEN {<<1>>} ELSE RngStreams
BatchRngChoices == {<<1>>}

\* {NonVerifiable,Verifiable}Server::new_with_key
NewWithKey ==
    /\ pc = "new"
    /\ \E key \in KeyBytes(mode) :
        \E r \in {IF mode = "Base" THEN NonVerifiableServer_new_with_key(key)
                 ELSE VerifiableServer_new_with_key(key)} :
            /\ server' = [sk |-> r.sk, pk |-> r.pk]
            /\ result' = [err |-> r.err, outputs |-> <<>>]
            /\ call' = [NoCall EXCEPT !.op = "new_with_key", !.key = key]
            /\ pc' = IF r.err = "Ok" THEN "blind" ELSE "failed"
    /\ UNCHANGED <<group, sizes, mode, inputs, clients, blinded, metadata, prepared,
                   evals, proof>>

\* {NonVerifiable,Verifiable}Server::new_from_seed
NewFromSeed ==
    /\ pc = "new"
    /\ \E seed \in SeedChoices :
        \E r \in {IF mode = "Base" THEN NonVerifiableServer_new_from_seed(seed)
                 ELSE VerifiableServer_new_from_seed(seed)} :
            /\ server' = [sk |-> r.sk, pk |-> r.pk]
            /\ result' = [err |-> r.err, outputs |-> <<>>]
            /\ call' = [NoCall EXCEPT !.op = "new_from_seed", !.inputs = <<seed>>]
            /\ pc' = IF r.err = "Ok" THEN "blind" ELSE "failed"
    /\ UNCHANGED <<group, sizes, mode, inputs, clients, blinded, metadata, prepared,
                   evals, proof>>

\* {NonVerifiable,Verifiable}Server::new
New ==
    /\ pc = "new"
    /\ \E rng \in RngChoices :
        \E r \in {IF mode = "Base" THEN NonVerifiableServer_new(rng)
                 ELSE VerifiableServer_new(rng)} :
            /\ server' = [sk |-> r.sk, pk |-> r.pk]
            /\ result' = [err |-> r.err, outputs |-> <<>>]
            /\ call' = [NoCall EXCEPT !.op = "new"]
            /\ pc' = IF r.err = "Ok" THEN "blind" ELSE "failed"
    /\ UNCHANGED <<group, sizes, mode, inputs, clients, blinded, metadata, prepared,
                   evals, proof>>

\* {NonVerifiable,Verifiable}Client::blind; Base mode has no batches.
Blind ==
    /\ pc = "blind"
    /\ Len(clients) < (IF mode = "Base" THEN 1 ELSE MaxBatch)
    /\ \E input \in InputChoices, rng \in RngChoices :
        \E r \in {IF mode = "Base" THEN NonVerifiableClient_blind(input, rng)
                 ELSE VerifiableClient_blind(input, rng)} :
            /\ result' = [err |-> r.err, outputs |-> <<>>]
            /\ call' = [NoCall EXCEPT !.op = "blind", !.inputs = <<input>>]
            /\ IF r.err = "Ok"
               THEN /\ inputs' = Append(inputs, input)
                    /\ clients' = Append(clients, r.state)
                    /\ blinded' = Append(blinded, r.message)
                    /\ pc' = pc
               ELSE /\ pc' = "failed"
                    /\ UNCHANGED <<inputs, clients, blinded>>
    /\ UNCHANGED <<group, sizes, mode, server, metadata, prepared, evals, proof>>

\* NonVerifiableServer::evaluate
EvaluateBase ==
    /\ pc = "blind"
    /\ mode = "Base"
    /\ Len(clients) = 1
    /\ \E info \in InfoChoices :
        \E r \in {NonVerifiableServer_evaluate(server.sk, blinded[1], info)} :
            /\ metadata' = info
            /\ result' = [err |-> r.err, outputs |-> <<>>]
            /\ call' = [NoCall EXCEPT !.op = "evaluate", !.info = info]
            /\ evals' = IF r.err = "Ok" THEN <<r.message>> ELSE <<>>
            /\ pc' = IF r.err = "Ok" THEN "evaluated" ELSE "failed"
    /\ UNCHANGED <<group, sizes, mode, server, inputs, clients, blinded, prepared, proof>>

\* VerifiableServer::evaluate
EvaluateVerifiable ==
    /\ pc = "blind"
    /\ mode = "Verifiable"
    /\ Len(clients) = 1
    /\ \E info \in InfoChoices, rng \in RngChoices :
        \E r \in {VerifiableServer_evaluate(server.sk, rng, blinded[1], info)} :
            /\ metadata' = info
            /\ result' = [err |-> r.err, outputs |-> <<>>]
            /\ call' = [NoCall EXCEPT !.op = "evaluate", !.info = info]
            /\ evals' = IF r.err = "Ok" THEN <<r.message>> ELSE <<>>
            /\ proof' = r.proof
            /\ pc' = IF r.err = "Ok" THEN "evaluated" ELSE "failed"
    /\ UNCHANGED <<group, sizes, mode, server, inputs, clients, blinded, prepared>>

\* The blinded elements a caller may hand to batch_evaluate: the ones its
\* clients sent, and for one client of the Ristretto255 run with the key 1
\* and the blind 1 also a batch of one more than u16::MAX copies of its
\* element.
EvaluateBlinded ==
    {blinded}
    \cup (IF /\ Len(blinded) = 1 /\ group = "Ristretto255"
              /\ server.sk = 1 /\ clients[1].blind = 1 /\ inputs[1].tag = 1
           THEN {Tuple([i \in 1..(U16_MAX + 1) |-> blinded[1]])}
           ELSE {})

\* VerifiableServer::batch_evaluate over a batch of blinded elements, with a
\* generator that yields the nonce 1.  The batch of u16::MAX elements goes
\* through prepare and finish.
BatchEvaluate ==
    /\ pc = "blind"
    /\ mode = "Verifiable"
    /\ Len(clients) \in 1..MaxBatch
    /\ \E info \in InfoChoices, rng \in BatchRngChoices, bes \in EvaluateBlinded :
        \E r \in {VerifiableServer_batch_evaluate(server.sk, rng, bes, info)} :
            /\ metadata' = info
            /\ result' = [err |-> r.err, outputs |-> <<>>]
            /\ call' = [op |-> "batch_evaluate", info |-> info, count |-> Len(bes)]
            /\ evals' = IF r.err = "Ok" THEN r.messages ELSE <<>>
            /\ proof' = r.proof
            /\ pc' = IF r.err = "Ok" /\ bes = blinded THEN "evaluated" ELSE "failed"
    /\ UNCHANGED <<group, sizes, mode, server, inputs, clients, blinded, prepared>>

\* VerifiableServer::batch_evaluate_prepare over the blinded elements
BatchEvaluatePrepare ==
    /\ pc = "blind"
    /\ mode = "Verifiable"
    /\ Len(clients) >= 1
    /\ \E info \in InfoChoices :
        \E r \in {batch_evaluate_prepare(server.sk, blinded, info)} :
            /\ metadata' = info
            /\ result' = [err |-> r.err, outputs |-> <<>>]
            /\ call' = [NoCall EXCEPT !.op = "batch_evaluate_prepare", !.info = info]
            /\ prepared' = [elements |-> r.prepared_evaluation_elements, t |-> r.t]
            /\ pc' = IF r.err = "Ok" THEN "prepared" ELSE "failed"
    /\ UNCHANGED <<group, sizes, mode, server, inputs, clients, blinded, evals, proof>>

\* The blinded elements a caller may hand to batch_evaluate_finish: the ones
\* that were prepared, one fewer, or one more.
FinishBlinded ==
    {blinded, SubSeq(blinded, 1, Len(blinded) - 1), Append(blinded, blinded[1])}

\* VerifiableServer::batch_evaluate_finish
BatchEvaluateFinish ==
    /\ pc = "prepared"
    /\ \E rng \in RngChoices, bes \in FinishBlinded :
        \E r \in {batch_evaluate_finish(rng, bes, prepared.elements, prepared.t)} :
            /\ result' = [err |-> r.err, outputs |-> <<>>]
            /\ call' = [NoCall EXCEPT !.op = "batch_evaluate_finish",
                                      !.messages = bes]
            /\ evals' = r.messages
            /\ proof' = r.proof
            /\ pc' = IF r.err = "Ok" THEN "evaluated" ELSE "failed"
    /\ UNCHANGED <<group, sizes, mode, server, inputs, clients, blinded, metadata, prepared>>

\* The byte strings handed to a deserialize for the serialization b of a
\* value of the run whose first field takes n bytes: b itself, b without its
\* last byte, b followed by one more byte, b with its first field zeroed, b
\* with all after its first field zeroed, and bytes that encode nothing.
WireForms(b, n) ==
    {b, SubSeq(b, 1, Len(b) - 1), b \o <<0>>,
     Tuple([i \in 1..Len(b) |-> IF i <= n THEN 0 ELSE b[i]]),
     Tuple([i \in 1..Len(b) |-> IF i <= n THEN b[i] ELSE 0]),
     Tuple([i \in 1..Len(b) |-> 255])}

\* What a deserialize returned.
WireResult(r) == [err |-> r.err, outputs |-> <<>>, val |-> r.val]

\* {NonVerifiable,Verifiable}Server::deserialize of a stored server state,
\* or of one stored with another public key.
ServerDeserialize ==
    /\ pc = "blind"
    /\ clients = <<>>
    /\ \E b \in IF mode = "Base"
                THEN WireForms(NonVerifiableServer_serialize(server), ScalarLen)
                ELSE WireForms(VerifiableServer_serialize(server), ScalarLen)
                     \cup {VerifiableServer_serialize(
                               [server EXCEPT !.pk = ElemAdd(server.pk, base_elem)])} :
        /\ call' = [op |-> "deserialize", type |-> "Server", input |-> b]
        /\ result' = WireResult(IF mode = "Base" THEN NonVerifiableServer_deserialize(b)
                                ELSE VerifiableServer_deserialize(b))
    /\ pc' = "wire"
    /\ UNCHANGED <<group, sizes, mode, server, inputs, clients, blinded, metadata,
                   prepared, evals, proof>>

\* {NonVerifiable,Verifiable}Client::deserialize of a stored client state
ClientDeserialize ==
    /\ pc = "blind"
    /\ Len(clients) = 1
    /\ \E b \in IF mode = "Base"
                THEN WireForms(NonVerifiableClient_serialize(clients[1]), ScalarLen)
                ELSE WireForms(VerifiableClient_serialize(clients[1]), ScalarLen) :
        /\ call' = [op |-> "deserialize", type |-> "Client", input |-> b]
        /\ result' = WireResult(IF mode = "Base" THEN NonVerifiableClient_deserialize(b)
                                ELSE VerifiableClient_deserialize(b))
    /\ pc' = "wire"
    /\ UNCHANGED <<group, sizes, mode, server, inputs, clients, blinded, metadata,
                   prepared, evals, proof>>

\* BlindedElement::deserialize of the message the client sent
BlindedElementDeserialize ==
    /\ pc = "blind"
    /\ Len(blinded) = 1
    /\ \E b \in WireForms(BlindedElement_serialize(blinded[1]), ElemLen) :
        /\ call' = [op |-> "deserialize", type |-> "BlindedElement", input |-> b]
        /\ result' = WireResult(BlindedElement_deserialize(b))
    /\ pc' = "wire"
    /\ UNCHANGED <<group, sizes, mode, server, inputs, clients, blinded, metadata,
                   prepared, evals, proof>>

\* EvaluationElement::deserialize of the message the server sent
EvaluationElementDeserialize ==
    /\ pc = "evaluated"
    /\ Len(evals) = 1
    /\ \E b \in WireForms(EvaluationElement_serialize(evals[1]), ElemLen) :
        /\ call' = [op |-> "deserialize", type |-> "EvaluationElement", input |-> b]
        /\ result' = WireResult(EvaluationElement_deserialize(b))
    /\ pc' = "wire"
    /\ UNCHANGED <<group, sizes, mode, server, inputs, clients, blinded, metadata,
                   prepared, evals, proof>>

\* Proof::deserialize of the proof the server sent
ProofDeserialize ==
    /\ pc = "evaluated"
    /\ mode = "Verifiable"
    /\ Len(evals) = 1
    /\ \E b \in WireForms(Proof_serialize(proof), ScalarLen) :
        /\ call' = [op |-> "deserialize", type |-> "Proof", input |-> b]
        /\ result' = WireResult(Proof_deserialize(b))
    /\ pc' = "wire"
    /\ UNCHANGED <<group, sizes, mode, server, inputs, clients, blinded, metadata,
                   prepared, evals, proof>>

\* Zeroize::zeroize applied by the holder of a state, a message or the proof
\* of the run to its copy; the zeroized value is what the call leaves.
Zeroize ==
    /\ pc = "evaluated"
    /\ Len(clients) = 1
    /\ \E type \in {"Client", "Server", "BlindedElement", "EvaluationElement"}
                    \cup (IF mode = "Verifiable" THEN {"Proof"} ELSE {}) :
        /\ call' = [op |-> "zeroize", type |-> type, input |-> <<>>]
        /\ result' =
               [err |-> "Ok", outputs |-> <<>>,
                val |-> CASE type = "Client" ->
                                 IF mode = "Base" THEN NonVerifiableClient_zeroize(clients[1])
                                 ELSE VerifiableClient_zeroize(clients[1])
                          [] type = "Server" ->
                                 IF mode = "Base" THEN NonVerifiableServer_zeroize(server)
                                 ELSE VerifiableServer_zeroize(server)
                          [] type = "BlindedElement" -> BlindedElement_zeroize(blinded[1])
                          [] type = "EvaluationElement" -> EvaluationElement_zeroize(evals[1])
                          [] type = "Proof" -> Proof_zeroize(proof)]
    /\ pc' = "zeroized"
    /\ UNCHANGED <<group, sizes, mode, server, inputs, clients, blinded, metadata,
                   prepared, evals, proof>>

\* The server is done with an evaluation: the result of
\* NonVerifiableServer::evaluate, or the result of batch_evaluate_prepare
\* with its iterator and its PreparedTscalar, is dropped.  What the storage of
\* the scalars of the evaluation then holds is kept in the result.
DropEvaluation ==
    /\ \/ pc = "evaluated" /\ mode = "Base"
       \/ pc = "prepared"
    /\ Len(clients) <= MaxBatch
    /\ \E held \in {IF mode = "Base"
                     THEN NonVerifiableServer_evaluate_scalars(server.sk, metadata)
                     ELSE batch_evaluate_prepare_scalars(server.sk, metadata)} :
        \E t \in Scalar_drop(held.t), inverse \in Scalar_drop(held.inverse) :
            /\ call' = [op |-> "drop", type |-> "Evaluation", input |-> <<>>]
            /\ result' = [err |-> "Ok", outputs |-> <<>>,
                          val |-> [t |-> t, inverse |-> inverse,
                                   prepared_t |-> IF mode = "Base" THEN zero_scalar
                                                  ELSE PreparedTscalar_drop(prepared.t)]]
    /\ pc' = "dropped"
    /\ UNCHANGED <<group, sizes, mode, server, inputs, clients, blinded, metadata,
                   prepared, evals, proof>>

\* The finalize call of an honest client: its inputs in the order they were
\* blinded, its states, the server's messages, public key and metadata.
HonestCall(op) ==
    [op |-> op, inputs |-> inputs, clients |-> clients, messages |-> evals,
     pk |-> server.pk, info |-> metadata, key |-> <<>>]

\* Public keys other than the server's: the tests' wrong key and g * (sk + 1).
WrongPks == {TestWrongPk, ElemAdd(server.pk, base_elem)} \ {server.pk}
\* Group elements other than e.
WrongElems(e) == {ElemAdd(e, base_elem), ElemAdd(e, e), identity_elem} \ {e}

\* Calls that differ from the honest call in exactly one argument.
TamperedCalls(op) ==
    LET h == HonestCall(op)
    IN  {[h EXCEPT !.pk = k] : k \in WrongPks}
        \cup {[h EXCEPT !.info = i] : i \in InfoChoices \ {metadata}}
        \cup UNION {{[h EXCEPT !.messages[j] = e] : e \in WrongElems(evals[j])} :
                     j \in 1..Len(evals)}
        \cup UNION {{[h EXCEPT !.inputs[j] = x] : x \in InputChoices \ {inputs[j]}} :
                     j \in 1..Len(inputs)}

\* Calls whose numbers of items differ from the honest call's: one message
\* fewer, one message more, one (client, message) pair more, fewer inputs,
\* and for a batch of up to MaxBatch items one input more.
CountCalls(op) ==
    LET h == HonestCall(op)
        fewer == IF Len(inputs) - 1 < MaxBatch THEN Len(inputs) - 1 ELSE MaxBatch
    IN  {[h EXCEPT !.messages = SubSeq(evals, 1, Len(evals) - 1)],
         [h EXCEPT !.messages = Append(evals, evals[1])],
         [h EXCEPT !.clients = Append(clients, clients[1]),
                   !.messages = Append(evals, evals[1])],
         [h EXCEPT !.inputs = SubSeq(inputs, 1, fewer)]}
        \cup (IF Len(inputs) <= MaxBatch
               THEN {[h EXCEPT !.inputs = Append(inputs, inputs[1])]}
               ELSE {})

\* The batch_finalize calls of the model; a batch beyond MaxBatch is
\* finalized for its first inputs only.
BatchCalls ==
    IF Len(clients) > MaxBatch THEN CountCalls("batch_finalize")
    ELSE {HonestCall("batch_finalize")} \cup TamperedCalls("batch_finalize")
         \cup CountCalls("batch_finalize")

\* NonVerifiableClient::finalize
FinalizeBase ==
    /\ pc = "evaluated"
    /\ mode = "Base"
    /\ \E input \in InputChoices, info \in InfoChoices :
        \E r \in {NonVerifiableClient_finalize(clients[1], input, evals[1], info)} :
            /\ call' = [HonestCall("finalize") EXCEPT !.inputs = <<input>>,
                                                     !.info = info]
            /\ result' = [err |-> r.err,
                          outputs |-> IF r.err = "Ok" THEN <<r>> ELSE <<>>]
    /\ pc' = "done"
    /\ UNCHANGED <<group, sizes, mode, server, inputs, clients, blinded, metadata,
                   prepared, evals, proof>>

\* NonVerifiableClient::finalize over the client's own blinded element, taken
\* as the evaluation element (EvaluationElement(message.0)).
FinalizeOwnMessage ==
    /\ pc = "blind"
    /\ mode = "Base"
    /\ Len(clients) = 1
    /\ \E info \in InfoChoices :
        \E r \in {NonVerifiableClient_finalize(clients[1], inputs[1], blinded[1], info)} :
            /\ call' = [HonestCall("finalize") EXCEPT !.messages = blinded,
                                                     !.info = info]
            /\ result' = [err |-> r.err,
                          outputs |-> IF r.err = "Ok" THEN <<r>> ELSE <<>>]
    /\ pc' = "inverted"
    /\ UNCHANGED <<group, sizes, mode, server, inputs, clients, blinded, metadata,
                   prepared, evals, proof>>

\* VerifiableClient::finalize
FinalizeVerifiable ==
    /\ pc = "evaluated"
    /\ mode = "Verifiable"
    /\ Len(clients) = 1
    /\ \E c \in {HonestCall("finalize")} \cup TamperedCalls("finalize") :
        \E r \in {VerifiableClient_finalize(c.clients[1], c.inputs[1], c.messages[1],
                                           proof, c.pk, c.info)} :
            /\ call' = c
            /\ result' = [err |-> r.err,
                          outputs |-> IF r.err = "Ok" THEN <<r>> ELSE <<>>]
    /\ pc' = "done"
    /\ UNCHANGED <<group, sizes, mode, server, inputs, clients, blinded, metadata,
                   prepared, evals, proof>>

\* VerifiableClient::batch_finalize
BatchFinalize ==
    /\ pc = "evaluated"
    /\ mode = "Verifiable"
    /\ \E c \in BatchCalls :
        \E r \in {batch_finalize(c.inputs, c.clients, c.messages, proof, c.pk, c.info)} :
            /\ call' = c
            /\ result' = r
    /\ pc' = "done"
    /\ UNCHANGED <<group, sizes, mode, server, inputs, clients, blinded, metadata,
                   prepared, evals, proof>>

\* finalize and batch_finalize borrow the client states (&self, &'a IC) and
\* leave them as they were: the caller still holds them after the call and
\* can hand them to finalize once more.  Here the honest client repeats its
\* call, over the states the first call was given.
FinalizeAgain ==
    /\ pc = "done"
    /\ Len(clients) <= MaxBatch
    /\ call = HonestCall(call.op)
    /\ \E r \in {IF call.op = "batch_finalize"
                 THEN batch_finalize(call.inputs, call.clients, call.messages, proof,
                                     call.pk, call.info)
                 ELSE IF mode = "Base"
                 THEN NonVerifiableClient_finalize(call.clients[1], call.inputs[1],
                                                   call.messages[1], call.info)
                 ELSE VerifiableClient_finalize(call.clients[1], call.inputs[1],
                                                call.messages[1], proof, call.pk,
                                                call.info)} :
        result' = IF call.op = "batch_finalize" THEN r
                  ELSE [err |-> r.err, outputs |-> IF r.err = "Ok" THEN <<r>> ELSE <<>>]
    /\ pc' = "finalized_again"
    /\ UNCHANGED <<group, sizes, mode, server, inputs, clients, blinded, metadata,
                   prepared, evals, proof, call>>

\* The caller of one run makes a batch of n copies of its blinded element,
\* n at the largest count a batch may have or one beyond it.
Replicate ==
    /\ pc = "blind"
    /\ mode = "Verifiable"
    /\ Len(clients) = 1
    /\ group = "Ristretto255"
    /\ server.sk = 1 /\ clients[1].blind = 1 /\ inputs[1].tag = 1
    /\ \E n \in {U16_MAX, U16_MAX + 1} :
        /\ inputs' = [i \in 1..n |-> inputs[1]]
        /\ clients' = [i \in 1..n |-> clients[1]]
        /\ blinded' = [i \in 1..n |-> blinded[1]]
    /\ UNCHANGED <<group, sizes, mode, pc, server, metadata, prepared, evals, proof,
                   call, result>>

Next ==
    \/ NewWithKey
    \/ NewFromSeed
    \/ New
    \/ Blind
    \/ EvaluateBase
    \/ EvaluateVerifiable
    \/ BatchEvaluate
    \/ BatchEvaluatePrepare
    \/ BatchEvaluateFinish
    \/ FinalizeBase
    \/ FinalizeOwnMessage
    \/ FinalizeVerifiable
    \/ BatchFinalize
    \/ FinalizeAgain
    \/ ServerDeserialize
    \/ ClientDeserialize
    \/ BlindedElementDeserialize
    \/ EvaluationElementDeserialize
    \/ ProofDeserialize
    \/ Zeroize
    \/ DropEvaluation

\* Runs over inputs and metadata of ordinary length.
Spec == Init /\ [][Next]_vars
\* Runs over inputs and metadata at the ends of the accepted lengths.
SpecLen == InitLen /\ [][Next]_vars
\* Runs that also take a batch to the largest count.
SpecBatch == Init /\ [][Next \/ Replicate]_vars
(***************************************************************************)
(* Properties.                                                             *)
(***************************************************************************)
\* A finalize call was made with exactly what an honest client holds: the
\* inputs it blinded, its states, the server's messages, proof, public key
\* and the metadata the server evaluated with.
HonestFinalize ==
    /\ pc = "done"
    /\ call.op \in {"finalize", "batch_finalize"}
    /\ call = HonestCall(call.op)

\* C1: in Base mode, finalize over the element the server evaluated from the
\* client's blinded message returns PRF_reference(x, k, info, Base), for
\* every input, metadata, key and blind.
C1_BaseCorrect ==
    (mode = "Base" /\ HonestFinalize)
        => /\ result.err = "Ok"
           /\ result.outputs[1].out = prf(inputs[1], server.sk, metadata, "Base")

\* Some client state of the run holds the zero scalar as its blind.
ZeroBlind == \E i \in 1..Len(clients) : clients[i].blind = zero_scalar

\* A Base run of the P-256 suite whose blind was drawn as zero: the blinded
\* and the evaluated element are the identity, and finalize returned an
\* output that is not the PRF value.
C1_Witness ==
    /\ mode = "Base" /\ HonestFinalize
    /\ group = "P256" /\ ZeroBlind
    /\ blinded = <<identity_elem>>
    /\ result.err = "Ok"
    /\ result.outputs[1].out # prf(inputs[1], server.sk, metadata, "Base")

\* The scalar t = sk + m the server evaluated with.
ServerT == ScalarAdd(server.sk, metadata_scalar(metadata, mode).val)

\* C2: in Verifiable mode, for every input, metadata, key, blind and nonce,
\* the proof of VerifiableServer::evaluate verifies against pk = g * k inside
\* finalize, and finalize returns PRF_reference(x, k, info, Verifiable).
C2_VerifiableCorrect ==
    (mode = "Verifiable" /\ HonestFinalize /\ call.op = "finalize")
        => /\ result.err = "Ok"
           /\ result.outputs[1].out = prf(inputs[1], server.sk, metadata, "Verifiable")

\* The server evaluated with t = 0 and the honest client's finalize failed
\* to verify the proof it returned.
C2_Witness ==
    /\ mode = "Verifiable" /\ HonestFinalize /\ call.op = "finalize"
    /\ server.pk = ElemMul(base_elem, server.sk)
    /\ ServerT = 0
    /\ evals = <<identity_elem>>
    /\ result.err = "ProofVerification"

\* The batch was evaluated through batch_evaluate_prepare followed by
\* batch_evaluate_finish, and batch_finalize was called as an honest client
\* calls it.
HonestBatch ==
    /\ mode = "Verifiable" /\ HonestFinalize /\ call.op = "batch_finalize"
    /\ prepared.elements = evals

\* C3: batch_finalize over a batch evaluated by prepare and finish with one
\* metadata succeeds, and its i-th output is PRF_reference(x_i, sk, info,
\* Verifiable), in the order the inputs were blinded.
C3_BatchCorrect ==
    HonestBatch
        => /\ result.err = "Ok"
           /\ Len(result.outputs) = Len(inputs)
           /\ \A i \in 1..Len(inputs) :
                  /\ result.outputs[i].err = "Ok"
                  /\ result.outputs[i].out
                         = prf(inputs[i], server.sk, metadata, "Verifiable")

\* A batch of two different inputs was evaluated with t = 0 and the honest
\* batch_finalize failed to verify the proof.
C3_Witness ==
    /\ HonestBatch
    /\ Len(inputs) = 2 /\ inputs[1] # inputs[2]
    /\ ServerT = 0
    /\ result.err = "ProofVerification"

\* A verifiable finalize or batch_finalize call that differs from the honest
\* client's call in the public key only.
WrongPkCall ==
    /\ pc = "done" /\ mode = "Verifiable"
    /\ call.op \in {"finalize", "batch_finalize"}
    /\ call.pk # server.pk
    /\ [call EXCEPT !.pk = server.pk] = HonestCall(call.op)

\* C4: given a public key other than the server's, verifiable finalize and
\* batch_finalize fail with ProofVerification, and the batch yields no
\* output for any position.
C4_WrongPkRejected ==
    WrongPkCall => (result.err = "ProofVerification" /\ result.outputs = <<>>)

\* A correctly evaluated batch of two was finalized with the wrong public
\* key of the tests and rejected as a whole.
C4_Witness ==
    /\ WrongPkCall
    /\ call.op = "batch_finalize" /\ Len(call.clients) = 2
    /\ call.pk = TestWrongPk
    /\ ServerT # 0
    /\ result = [err |-> "ProofVerification", outputs |-> <<>>]

\* A verifiable finalize call that keeps the honest client's inputs, states,
\* proof and public key, and either replaces evaluation elements by other
\* group elements or passes another metadata than the server evaluated with.
TamperedCall ==
    /\ pc = "done" /\ mode = "Verifiable"
    /\ call.op \in {"finalize", "batch_finalize"}
    /\ call.pk = server.pk /\ call.inputs = inputs /\ call.clients = clients
    /\ Len(call.messages) = Len(evals)
    /\ \/ call.messages # evals /\ call.info = metadata
       \/ call.messages = evals /\ call.info # metadata

InputTamperedCall ==
    /\ pc = "done" /\ mode = "Verifiable"
    /\ call.op \in {"finalize", "batch_finalize"}
    /\ call.inputs # inputs /\ Len(call.inputs) = Len(inputs)
    /\ [call EXCEPT !.inputs = inputs] = HonestCall(call.op)

ZeroTEvaluate ==
    /\ call.op \in {"evaluate", "batch_evaluate_prepare"}
    /\ metadata_scalar(metadata, mode).ok
    /\ ServerT = 0

\* C7: when sk + m = 0, evaluate (both modes) and batch_evaluate_prepare
\* fail with Metadata and return no evaluation element.
C7_ZeroTRejected ==
    ZeroTEvaluate
        => /\ result.err = "Metadata"
           /\ evals = <<>>
           /\ prepared.elements = <<>>

\* NonVerifiableServer::evaluate returned the identity element as E for a
\* metadata with sk + m = 0.
C7_Witness ==
    /\ ZeroTEvaluate /\ mode = "Base"
    /\ result.err = "Ok"
    /\ evals = <<identity_elem>>

\* blind has just returned for an input of n bytes.
BlindReturned == call.op = "blind"

\* A finalize call that is the honest client's but for its input, after a
\* correct evaluation.
FinalizeOverInput ==
    /\ pc = "done" /\ call.op = "finalize"
    /\ [call EXCEPT !.inputs = inputs] = HonestCall("finalize")
    /\ mode = "Verifiable" => ServerT # 0

\* C8: blind (both modes) fails with Input for an empty input and for one
\* longer than 65535 bytes and succeeds for every length from 1 to 65535;
\* finalize validates its input in the same way.
C8_InputLength ==
    /\ BlindReturned
          => result.err = (IF call.inputs[1].len \in 1..U16_MAX THEN "Ok" ELSE "Input")
    /\ FinalizeOverInput
          => result.err = (IF call.inputs[1].len \in 1..U16_MAX THEN "Ok" ELSE "Input")

\* finalize returned an output for the empty input.
C8_Witness ==
    /\ FinalizeOverInput
    /\ call.inputs[1].len = 0
    /\ result.err = "Ok"
    /\ Len(result.outputs) = 1

\* evaluate, or finalize over the input that was blinded, has just returned
\* for the metadata call.info.
InfoCall ==
    \/ call.op = "evaluate"
    \/ pc = "done" /\ call.op = "finalize" /\ call.inputs = inputs

\* C9: evaluate and finalize (both modes) fail with Metadata when the
\* metadata is longer than 65535 - 21 bytes, and accept every metadata of at
\* most 65535 - 21 bytes.
C9_InfoLength ==
    InfoCall => (result.err = "Metadata" <=> call.info.len > U16_MAX - 21)

\* finalize returned an output for metadata longer than 65535 - 21 bytes.
C9_Witness ==
    /\ pc = "done" /\ call.op = "finalize" /\ call.inputs = inputs
    /\ call.info.len > U16_MAX - 21
    /\ result.err = "Ok"
    /\ Len(result.outputs) = 1

\* batch_finalize has just returned.
BatchFinalizeReturned == pc = "done" /\ call.op = "batch_finalize"
\* batch_evaluate_finish has just returned.
BatchFinishReturned == call.op = "batch_evaluate_finish"

\* C10: batch_finalize fails with Batch when the numbers of client states
\* and of messages differ, batch_evaluate_finish fails with Batch when the
\* numbers of blinded and of prepared elements differ, both fail with Batch
\* when the number exceeds 65535, and a batch of exactly 65535 with equal
\* numbers is accepted.
C10_BatchCounts ==
    /\ BatchFinalizeReturned
          => (result.err = "Batch"
                <=> \/ Len(call.clients) # Len(call.messages)
                    \/ Len(call.clients) > U16_MAX)
    /\ BatchFinishReturned
          => (result.err = "Batch"
                <=> \/ Len(call.messages) # Len(prepared.elements)
                    \/ Len(call.messages) > U16_MAX)

\* batch_finalize returned Batch for client states and messages of
\* different numbers.
C10_Witness ==
    /\ BatchFinalizeReturned
    /\ Len(call.clients) # Len(call.messages)
    /\ Len(call.clients) = Len(clients)
    /\ result.err = "Batch"
    /\ result.outputs = <<>>

\* A deserialize of the given type has just returned.
Deserialized(type) == pc = "wire" /\ call.op = "deserialize" /\ call.type = type
\* The k-th scalar-sized field of the byte string b is there and all zero.
ZeroField(b, k) ==
    /\ Len(b) >= k * ScalarLen
    /\ \A i \in ((k - 1) * ScalarLen + 1)..(k * ScalarLen) : b[i] = 0

\* C11: deserializing the serialization of the identity element fails with
\* Deserialization, in both groups: BlindedElement::deserialize and
\* EvaluationElement::deserialize never return the identity.
C11_IdentityRejected ==
    (Deserialized("BlindedElement") \/ Deserialized("EvaluationElement"))
        => /\ call.input = serialize_elem(identity_elem)
                 => result.err = "Deserialization"
           /\ result.err = "Ok" => result.val # identity_elem

\* The serialization of an evaluation element that is the identity was
\* handed to EvaluationElement::deserialize and rejected.
C11_Witness ==
    /\ Deserialized("EvaluationElement")
    /\ evals = <<identity_elem>>
    /\ call.input = EvaluationElement_serialize(evals[1])
    /\ result.err = "Deserialization"

\* C12: deserializing an all-zero scalar fails with Deserialization, in both
\* groups: Proof::deserialize fails when c or s encodes zero, and the
\* deserialize of a client or server state fails when its blind or its key
\* encodes zero.
C12_ZeroRejected ==
    /\ Deserialized("Proof")
          => /\ (ZeroField(call.input, 1) \/ ZeroField(call.input, 2))
                   => result.err = "Deserialization"
             /\ result.err = "Ok"
                   => (result.val.c_scalar # zero_scalar
                       /\ result.val.s_scalar # zero_scalar)
    /\ Deserialized("Client")
          => /\ ZeroField(call.input, 1) => result.err = "Deserialization"
             /\ result.err = "Ok" => result.val.blind # zero_scalar
    /\ Deserialized("Server")
          => /\ ZeroField(call.input, 1) => result.err = "Deserialization"
             /\ result.err = "Ok" => result.val.sk # zero_scalar

\* A proof whose c is the server's and whose s is encoded as zero was
\* rejected.
C12_Witness ==
    /\ Deserialized("Proof")
    /\ SubSeq(call.input, 1, ScalarLen) = serialize_scalar(proof.c_scalar)
    /\ proof.c_scalar # zero_scalar
    /\ ZeroField(call.input, 2)
    /\ result.err = "Deserialization"

\* The value of the run a deserialize of the given type is about, and its
\* serialization.
WireValue(type) ==
    CASE type = "Server" -> server
      [] type = "Client" -> clients[1]
      [] type = "BlindedElement" -> blinded[1]
      [] type = "EvaluationElement" -> evals[1]
      [] type = "Proof" -> proof
WireBytes(type) ==
    CASE type = "Server" -> IF mode = "Base" THEN NonVerifiableServer_serialize(server)
                            ELSE VerifiableServer_serialize(server)
      [] type = "Client" -> IF mode = "Base" THEN NonVerifiableClient_serialize(clients[1])
                            ELSE VerifiableClient_serialize(clients[1])
      [] type = "BlindedElement" -> BlindedElement_serialize(blinded[1])
      [] type = "EvaluationElement" -> EvaluationElement_serialize(evals[1])
      [] type = "Proof" -> Proof_serialize(proof)
\* deserialize was handed the serialization of the run's value.
RoundTrip == pc = "wire" /\ call.op = "deserialize" /\ call.input = WireBytes(call.type)

\* C13: for every client state, server state, BlindedElement,
\* EvaluationElement and Proof produced by blind, new / new_with_key /
\* new_from_seed and evaluate, deserialize(serialize(v)) succeeds and returns
\* a value equal to v.
C13_RoundTrip ==
    RoundTrip => (result.err = "Ok" /\ result.val = WireValue(call.type))

\* The evaluation element of a server with sk + m = 0 did not deserialize
\* from its own serialization.
C13_Witness ==
    /\ RoundTrip /\ call.type = "EvaluationElement"
    /\ ServerT = 0
    /\ result.err = "Deserialization"

\* C14: deserialize of a state, message or proof from a byte string shorter
\* than its wire length fails with SizeError.
C14_TruncatedSizeError ==
    (pc = "wire" /\ call.op = "deserialize"
        /\ Len(call.input) < Len(WireBytes(call.type)))
        => result.err = "SizeError"

\* A proof without its last byte was rejected with Deserialization.
C14_Witness ==
    /\ Deserialized("Proof")
    /\ call.input = SubSeq(Proof_serialize(proof), 1, 2 * ScalarLen - 1)
    /\ result.err = "Deserialization"

\* C15: every VerifiableServer obtained from new, new_with_key,
\* new_from_seed or deserialize has pk = g * sk.
C15_KeyPair ==
    mode = "Verifiable"
        => /\ pc \notin {"new", "failed"} => server.pk = ElemMul(base_elem, server.sk)
           /\ (Deserialized("Server") /\ result.err = "Ok")
                 => result.val.pk = ElemMul(base_elem, result.val.sk)

\* VerifiableServer::deserialize returned a server whose public key is not
\* g * sk.
C15_Witness ==
    /\ mode = "Verifiable" /\ Deserialized("Server")
    /\ result.err = "Ok"
    /\ result.val.sk = server.sk
    /\ result.val.pk # ElemMul(base_elem, result.val.sk)

\* C16: for every output of the caller's generator and in both groups,
\* random_scalar returns a scalar of 1..q-1: the blind of every client state
\* created by blind is not zero and no blinded element is the identity.
C16_NonzeroBlind ==
    /\ \A i \in 1..Len(clients) : clients[i].blind \in 1..(Q - 1)
    /\ \A i \in 1..Len(blinded) : blinded[i] # identity_elem

\* P-256 VerifiableClient::blind has just returned a state whose blind is
\* zero, with the identity as blinded element.
C16_Witness ==
    /\ group = "P256" /\ mode = "Verifiable"
    /\ pc = "blind" /\ call.op = "blind" /\ result.err = "Ok"
    /\ clients[Len(clients)].blind = zero_scalar
    /\ clients[Len(clients)].blinded_element = identity_elem
    /\ blinded[Len(blinded)] = identity_elem

\* The server of the run came out of a successful constructor.
ServerCreated == pc \notin {"new", "failed"}

C18_ClientState ==
    mode = "Verifiable"
        => \A i \in 1..Len(clients) :
              /\ clients[i].blinded_element
                    = ElemMul(hash_to_curve(<<Data(inputs[i])>>, "Verifiable").val,
                              clients[i].blind)
              /\ clients[i].blinded_element = blinded[i]

\* VerifiableClient::blind has just returned a state with a blind other than
\* zero and one, and a message that is not the identity.
C18_Witness ==
    /\ mode = "Verifiable"
    /\ pc = "blind" /\ call.op = "blind" /\ result.err = "Ok"
    /\ clients[Len(clients)].blind \notin {zero_scalar, 1}
    /\ blinded[Len(blinded)] # identity_elem
    /\ blinded[Len(blinded)] = clients[Len(clients)].blinded_element

\* A second finalize has returned, over client states that an earlier
\* finalize call had already been given.
SecondFinalize ==
    /\ pc = "finalized_again"
    /\ call.op \in {"finalize", "batch_finalize"}
    /\ call.clients = clients

\* C19: a client state is consumed by finalize: after one finalize call on a
\* state there is no second finalize call on the same state.
C19_SingleUse == ~SecondFinalize

\* After a correct evaluation, a second finalize over the same state of a
\* NonVerifiableClient returned the PRF output.
C19_Witness ==
    /\ SecondFinalize /\ mode = "Base"
    /\ ~ZeroBlind
    /\ result.err = "Ok"
    /\ result.outputs[1].out = prf(inputs[1], server.sk, metadata, "Base")

\* batch_finalize has returned for the client states of the run, with as
\* many inputs and messages as states.
BatchOverStates ==
    /\ BatchFinalizeReturned
    /\ call.clients = clients /\ Len(clients) <= MaxBatch
    /\ Len(call.inputs) = Len(clients) /\ Len(call.messages) = Len(clients)
\* The single finalize over the i-th state, input and message of the batch
\* call, with the proof p and the call's public key and metadata.
SingleFinalize(i, p) ==
    VerifiableClient_finalize(call.clients[i], call.inputs[i], call.messages[i], p,
                              call.pk, call.info)
\* The proof the server makes when it evaluates the i-th blinded element
\* alone.
ItemProof(i) == VerifiableServer_evaluate(server.sk, <<1>>, blinded[i], metadata).proof
\* The single result r is what the batch returned at position i: the same
\* output when the batch succeeded, the same error when it failed.
SamePosition(r, i) ==
    IF result.err = "Ok" THEN r = result.outputs[i] ELSE r.err = result.err

\* C20 as stated: batch_finalize yields, position by position, what n single
\* finalize calls over the same states yield with the same proof, public key
\* and metadata.
C20_SameProofEquivalence ==
    BatchOverStates
        => \A i \in 1..Len(clients) : SamePosition(SingleFinalize(i, proof), i)

\* C20: a batch of one is the single finalize.  A batch of n that succeeds
\* yields at each position what the single finalize over that state yields
\* with the proof of that item's own evaluation; with the proof of a batch
\* of two or more, the single finalize fails with ProofVerification (blinds
\* not zero).
C20_BatchEquivalence ==
    BatchOverStates
        => /\ Len(clients) = 1 => SamePosition(SingleFinalize(1, proof), 1)
           /\ result.err = "Ok"
                 => \A i \in 1..Len(clients) :
                       /\ SingleFinalize(i, ItemProof(i)) = result.outputs[i]
                       /\ (Len(clients) >= 2 /\ ~ZeroBlind)
                             => SingleFinalize(i, proof).err = "ProofVerification"

\* An honest batch of two different inputs succeeded, and the single
\* finalize over its first state with the batch's proof does not verify.
C20_Witness ==
    /\ BatchOverStates /\ HonestFinalize
    /\ Len(clients) = 2 /\ inputs[1] # inputs[2]
    /\ ~ZeroBlind
    /\ result.err = "Ok"
    /\ SingleFinalize(1, proof).err = "ProofVerification"
    /\ SingleFinalize(1, ItemProof(1)) = result.outputs[1]


\* Zeroize::zeroize of a value of the given type has returned.
Zeroized(type) == pc = "zeroized" /\ call.op = "zeroize" /\ call.type = type
\* The byte string b has n bytes, all of them zero.
ZeroBytes(b, n) == Len(b) = n /\ \A i \in 1..n : b[i] = 0

\* C21: after zeroize is applied to a client state, a server state, a
\* BlindedElement, an EvaluationElement or a Proof, its serialize() output
\* consists only of zero bytes.
C21_ZeroizedSerialize ==
    /\ Zeroized("Client")
          => IF mode = "Base"
             THEN ZeroBytes(NonVerifiableClient_serialize(result.val), ScalarLen)
             ELSE ZeroBytes(VerifiableClient_serialize(result.val), ScalarLen + ElemLen)
    /\ Zeroized("Server")
          => IF mode = "Base"
             THEN ZeroBytes(NonVerifiableServer_serialize(result.val), ScalarLen)
             ELSE ZeroBytes(VerifiableServer_serialize(result.val), ScalarLen + ElemLen)
    /\ Zeroized("BlindedElement")
          => ZeroBytes(BlindedElement_serialize(result.val), ElemLen)
    /\ Zeroized("EvaluationElement")
          => ZeroBytes(EvaluationElement_serialize(result.val), ElemLen)
    /\ Zeroized("Proof") => ZeroBytes(Proof_serialize(result.val), 2 * ScalarLen)

\* A P-256 VerifiableClient state with a non-zero blind and a blinded
\* element other than the identity was zeroized, and serializes to zero bytes
\* where it did not before.
C21_Witness ==
    /\ Zeroized("Client") /\ mode = "Verifiable" /\ group = "P256"
    /\ clients[1].blind # zero_scalar
    /\ clients[1].blinded_element # identity_elem
    /\ \E i \in 1..ScalarLen : VerifiableClient_serialize(clients[1])[i] # 0
    /\ \E i \in (ScalarLen + 1)..(ScalarLen + ElemLen) :
           VerifiableClient_serialize(clients[1])[i] # 0
    /\ ZeroBytes(VerifiableClient_serialize(result.val), ScalarLen + ElemLen)


\* C22: new_from_seed of both server kinds fails with Seed when the seed is
\* empty or longer than 65535 bytes and succeeds for every seed of 1 to
\* 65535 bytes; new(rng) never fails, whatever the generator puts out.
C22_SeedValidation ==
    /\ call.op = "new_from_seed"
          => /\ result.err = IF call.inputs[1].len \in 1..U16_MAX THEN "Ok" ELSE "Seed"
             /\ pc = IF result.err = "Ok" THEN "blind" ELSE "failed"
    /\ call.op = "new" => (result.err = "Ok" /\ pc = "blind")

\* VerifiableServer::new_from_seed was handed a seed of 65536 bytes and
\* failed with Seed.
C22_Witness ==
    /\ mode = "Verifiable"
    /\ call.op = "new_from_seed" /\ call.inputs[1].len = U16_MAX + 1
    /\ result.err = "Seed" /\ pc = "failed"


\* The verifiable server has returned a proof: from evaluate, or from
\* batch_evaluate_finish over the blinded elements that were prepared.
ProofGenerated ==
    /\ mode = "Verifiable" /\ pc = "evaluated"
    /\ call.op \in {"evaluate", "batch_evaluate_finish"}
    /\ result.err = "Ok"
\* The scalar k the proof was generated with: t = sk + m.
ProofKey ==
    IF call.op = "evaluate"
    THEN ScalarAdd(server.sk, metadata_scalar(metadata, "Verifiable").val)
    ELSE prepared.t
\* Every pair of the proof has D_i = C_i * k: C the evaluation elements, D
\* the blinded elements.
SameExponent ==
    /\ Len(evals) = Len(blinded)
    /\ \A i \in 1..Len(evals) : blinded[i] = ElemMul(evals[i], ProofKey)
\* The proof is the one generate_proof returns for the nonce r of the
\* generator rng, has s = r - c * k, and the verifier's t2 and t3 over the
\* composite m are the prover's g * r and m * r.
ProverNonce(rng, m, z) ==
    LET r == random_nonzero_scalar(rng)
        g == base_elem
        b == ElemMul(g, ProofKey)
        generated == generate_proof(rng, ProofKey, g, b, evals, blinded)
    IN  /\ proof = [c_scalar |-> generated.c_scalar, s_scalar |-> generated.s_scalar]
        /\ proof.s_scalar = ScalarSub(r, ScalarMul(proof.c_scalar, ProofKey))
        /\ ElemAdd(ElemMul(g, proof.s_scalar), ElemMul(b, proof.c_scalar)) = ElemMul(g, r)
        /\ ElemAdd(ElemMul(m, proof.s_scalar), ElemMul(z, proof.c_scalar)) = ElemMul(m, r)

\* C23: for every scalar k, nonce r and equal-length sequences C, D with
\* D_i = C_i * k, the proof (c, s) of generate_proof(r, k, g, g * k, C, D)
\* has s = r - c * k and is accepted by verify_proof(g, g * k, C, D, proof);
\* the composites computed with the key (Z = M * k) equal those computed
\* without it, and the verifier's t2, t3 equal the prover's g * r, M * r.
C23_Completeness ==
    (ProofGenerated /\ SameExponent)
        => LET b == ElemMul(base_elem, ProofKey)
               with_key == compute_composites([some |-> TRUE, k |-> ProofKey], b,
                                              evals, blinded)
               without_key == compute_composites([some |-> FALSE, k |-> 0], b,
                                                 evals, blinded)
           IN  /\ with_key.err = "Ok"
               /\ with_key.z = ElemMul(with_key.m, ProofKey)
               /\ without_key = with_key
               /\ \E rng \in RngChoices : ProverNonce(rng, without_key.m, without_key.z)
               /\ verify_proof(base_elem, b, evals, blinded, proof) = "Ok"

\* batch_evaluate_finish has returned a proof over two different pairs with
\* a common exponent other than zero and one, with a challenge and a
\* response other than zero.
C23_Witness ==
    /\ ProofGenerated /\ SameExponent
    /\ call.op = "batch_evaluate_finish"
    /\ Len(evals) = 2 /\ evals[1] # evals[2]
    /\ evals[1] # identity_elem /\ evals[2] # identity_elem
    /\ ProofKey \notin {zero_scalar, 1}
    /\ proof.c_scalar # zero_scalar /\ proof.s_scalar # zero_scalar


\* VerifiableClient::finalize or batch_finalize has returned.
VerifiableFinalizeReturned ==
    /\ mode = "Verifiable" /\ pc \in {"done", "finalized_again"}
    /\ call.op \in {"finalize", "batch_finalize"}
\* What the check of the proof says for the arguments of the call: Metadata
\* when the metadata cannot be hashed, else the verdict of verify_proof over
\* u = g * m + pk, the messages and the blinded elements of the states.
ProofVerdict ==
    LET m == metadata_scalar(call.info, "Verifiable")
    IN  IF ~m.ok THEN "Metadata"
        ELSE verify_proof(base_elem, ElemAdd(ElemMul(base_elem, m.val), call.pk),
                          call.messages,
                          [i \in 1..Len(call.clients) |-> call.clients[i].blinded_element],
                          proof)

\* C24: in VerifiableClient::finalize and batch_finalize the proof is
\* checked before any unblinded element or output is made available: when
\* verification fails the call returns ProofVerification with no output for
\* any position, and an output is produced only after verify_proof accepted.
C24_VerifyBeforeUnblind ==
    VerifiableFinalizeReturned
        => /\ ProofVerdict = "ProofVerification"
                 => (result.err = "ProofVerification" /\ result.outputs = <<>>)
           /\ (result.err = "Ok" \/ result.outputs # <<>>) => ProofVerdict = "Ok"

\* batch_finalize over two states was handed a wrong public key: the proof
\* did not verify and the call returned ProofVerification without outputs.
C24_Witness ==
    /\ VerifiableFinalizeReturned /\ call.op = "batch_finalize"
    /\ Len(call.clients) = 2 /\ Len(call.messages) = 2 /\ Len(call.inputs) = 2
    /\ call.pk # server.pk
    /\ ProofVerdict = "ProofVerification"
    /\ result.err = "ProofVerification" /\ result.outputs = <<>>


\* batch_finalize has succeeded over a call that is the honest client's but
\* for its inputs, of which there are as many as states.
BatchOverInputs ==
    /\ mode = "Verifiable" /\ pc = "done" /\ call.op = "batch_finalize"
    /\ Len(call.inputs) = Len(inputs)
    /\ [call EXCEPT !.inputs = inputs] = HonestCall("batch_finalize")
    /\ result.err = "Ok"

\* C25: when batch_finalize succeeds, each position fails or succeeds on its
\* own: a position whose input is invalid (empty, or longer than 65535
\* bytes) yields Err(Input) for that position only, and every other
\* position yields its correct PRF output.
C25_PerItemInput ==
    BatchOverInputs
        => /\ Len(result.outputs) = Len(inputs)
           /\ \A i \in 1..Len(inputs) :
                 IF call.inputs[i].len \notin 1..U16_MAX
                 THEN result.outputs[i].err = "Input"
                 ELSE call.inputs[i] = inputs[i]
                         => /\ result.outputs[i].err = "Ok"
                            /\ result.outputs[i].out
                                  = prf(inputs[i], server.sk, metadata, "Verifiable")

\* batch_finalize over two states with non-zero blinds was handed the empty
\* input at the first position: that position yields an output instead of
\* Err(Input), and the second position yields its PRF output.
C25_Witness ==
    /\ BatchOverInputs /\ Len(inputs) = 2
    /\ \A i \in 1..2 : clients[i].blind # zero_scalar
    /\ call.inputs[1].len = 0 /\ call.inputs[2] = inputs[2]
    /\ result.outputs[1].err = "Ok"
    /\ result.outputs[2].err = "Ok"
    /\ result.outputs[2].out = prf(inputs[2], server.sk, metadata, "Verifiable")


\* VerifiableServer::batch_evaluate has returned, or has not.
BatchEvaluateCalled == mode = "Verifiable" /\ call.op = "batch_evaluate"

\* C26: VerifiableServer::batch_evaluate called with more than 65535
\* blinded elements returns Err(Batch) to its caller rather than aborting,
\* and evaluate and batch_evaluate never abort for any accepted metadata.
C26_OversizedBatch ==
    /\ (BatchEvaluateCalled /\ call.count > U16_MAX /\ call.info.len <= U16_MAX - 21)
          => result.err = "Batch"
    /\ call.op \in {"evaluate", "batch_evaluate"} => result.err # "Panic"

\* batch_evaluate was handed 65536 blinded elements and panicked.
C26_Witness ==
    /\ BatchEvaluateCalled /\ call.count = U16_MAX + 1
    /\ result.err = "Panic" /\ pc = "failed"

\* The value of the expansion of the parts under the HashToScalar tag, read
\* as an integer and reduced modulo the order.
ExpansionModOrder(parts, m) ==
    from_bytes_mod_order_wide(
        expand_message_xmd(parts, STR_HASH_TO_SCALAR \o get_context_string(m)).val)
\* The scalar v has a zero byte at the front of its big-endian encoding.
LeadingZeroByte(v) == BeBytes(v, ScalarLen)[1] = 0
\* The parts the server hashes to the metadata scalar m.
ContextParts ==
    <<Bytes(STR_CONTEXT \o get_context_string("Verifiable") \o i2osp_2(metadata.len).val),
      Data(metadata)>>
\* A P-256 server was derived from a seed, or has prepared an evaluation
\* with t = sk + m: the scalars sk and m come from hash_to_scalar.
SeedHashed ==
    group = "P256" /\ call.op = "new_from_seed" /\ result.err = "Ok"
MetadataHashed ==
    /\ group = "P256" /\ mode = "Verifiable"
    /\ call.op = "batch_evaluate_prepare" /\ result.err = "Ok"

\* C27: for every expansion u, P-256 hash_to_scalar returns the scalar whose
\* value is u read as a big-endian integer modulo n, also when the reduced
\* value has leading zero bytes in its big-endian encoding.
C27_P256Reduction ==
    /\ SeedHashed => server.sk = ExpansionModOrder(<<Data(call.inputs[1])>>, mode)
    /\ MetadataHashed
          => ScalarSub(prepared.t, server.sk) = ExpansionModOrder(ContextParts, mode)

\* P-256 batch_evaluate_prepare hashed the metadata to an expansion whose
\* reduced value has a leading zero byte, and used another scalar as m.
C27_Witness ==
    /\ MetadataHashed
    /\ LeadingZeroByte(ExpansionModOrder(ContextParts, mode))
    /\ ScalarSub(prepared.t, server.sk) # ExpansionModOrder(ContextParts, mode)


\* An evaluation of the server has been dropped.
EvaluationDropped == pc = "dropped" /\ call.op = "drop"

\* C28: the intermediate scalar t = sk + m of NonVerifiableServer::evaluate
\* and of VerifiableServer::batch_evaluate_prepare, and every copy and
\* inverse of it that the evaluation held, has its storage zeroed by the
\* time the evaluation result and its iterators are dropped.
C28_IntermediateErased ==
    EvaluationDropped
        => /\ result.val.t = zero_scalar
           /\ result.val.inverse = zero_scalar
           /\ result.val.prepared_t = zero_scalar

\* The result of batch_evaluate_prepare was dropped for a t other than zero:
\* the PreparedTscalar is zeroed, and the storage of the local t and of the
\* inverse in the iterator still holds the scalars.
C28_Witness ==
    /\ EvaluationDropped /\ mode = "Verifiable"
    /\ prepared.t # zero_scalar
    /\ result.val.prepared_t = zero_scalar
    /\ result.val.t = prepared.t
    /\ result.val.inverse = invert_scalar(prepared.t)


\* NonVerifiableClient::finalize has returned for the client's own blinded
\* element as evaluation element.
OwnMessageFinalized ==
    /\ mode = "Base" /\ pc = "inverted" /\ call.op = "finalize"
    /\ call.messages = blinded

\* C29: for every input x and every non-zero blind,
\* NonVerifiableClient::finalize applied to the client's own blinded element
\* as evaluation element returns the finalize hash of hash_to_curve(x):
\* (hash_to_curve(x) * blind) * blind^(-1) = hash_to_curve(x).
C29_UnblindCancels ==
    (OwnMessageFinalized /\ clients[1].blind # zero_scalar)
        => LET point == hash_to_curve(<<Data(inputs[1])>>, "Base").val
               res2 == finalize_after_unblind(<<<<inputs[1], point>>>>, call.info, "Base")[1]
           IN  /\ ElemMul(blinded[1], invert_scalar(clients[1].blind)) = point
               /\ result.err = res2.err
               /\ result.err = "Ok" => result.outputs = <<res2>>

\* finalize over the client's own blinded element returned an output, for a
\* blind other than zero and one and a blinded element that is neither the
\* identity nor the hashed point.
C29_Witness ==
    /\ OwnMessageFinalized
    /\ clients[1].blind \notin {zero_scalar, 1}
    /\ blinded[1] # identity_elem
    /\ blinded[1] # hash_to_curve(<<Data(inputs[1])>>, "Base").val
    /\ result.err = "Ok" /\ Len(result.outputs) = 1


\* batch_finalize has returned for as many states as messages and a proof
\* that verifies over them.
VerifiedBatch ==
    /\ mode = "Verifiable" /\ pc = "done" /\ call.op = "batch_finalize"
    /\ Len(call.clients) = Len(call.messages)
    /\ ProofVerdict = "Ok"

\* C30: the number of inputs is not validated in batch_finalize: when
\* |clients| = |messages| and the proof verifies, batch_finalize yields
\* exactly min(|inputs|, |clients|) outputs, output i computed from
\* inputs[i], clients[i] and messages[i]; a number of inputs different from
\* the number of clients is not reported as Batch, and the surplus entries
\* are ignored.
C30_InputCount ==
    VerifiedBatch
        => /\ result.err = "Ok"
           /\ Len(result.outputs) = Min(Len(call.inputs), Len(call.clients))
           /\ \A i \in 1..Len(result.outputs) :
                 result.outputs[i]
                    = finalize_item(call.inputs[i],
                                    ElemMul(call.messages[i],
                                            invert_scalar(call.clients[i].blind)),
                                    call.info, "Verifiable")

\* batch_finalize over two states and messages was handed three inputs and
\* returned two outputs.
C30_Witness ==
    /\ VerifiedBatch
    /\ Len(call.clients) = 2 /\ Len(call.inputs) = 3
    /\ result.err = "Ok" /\ Len(result.outputs) = 2
    /\ \A i \in 1..2 : result.outputs[i].err = "Ok"

====
